---- MODULE Spec2Model ----
(***************************************************************************)
(* Nervyra: the clause engine (text normalisation, weighted token-overlap  *)
(* scoring, one-winner-per-key resolution, highlighting, colour            *)
(* normalisation), the HTML-to-RTF serializer of nervyra/clipboard_utils,  *)
(* the final review of nervyra/ui/dialogs and the clause-check workflow of *)
(* nervyra/app and nervyra/tools/clause_checker.                           *)
(*                                                                         *)
(* A text is a sequence of characters; a character is a one-character      *)
(* string.  Characters outside ASCII are written by their code point       *)
(* ("U+2019" is the right single quotation mark, "U+00E9" is e-acute,      *)
(* "U+0301" the combining acute accent, "U+2013" the en dash, "U+2022"     *)
(* the bullet).                                                            *)
(***************************************************************************)
EXTENDS Integers, Sequences, FiniteSets, TLC

VARIABLES
    user_lines,     \* best_unique_matches: the lines passed in
    clauses,        \* best_unique_matches: the clause library passed in
    department,     \* best_unique_matches: the department passed in
    line_results,   \* best_unique_matches: list of (match, score), one per line
    best_for_key,   \* best_unique_matches: dict key -> (idx, score)
    final,          \* best_unique_matches: the list being returned
    idx,            \* loop index of the running for loop (Python, 0-based)
    pc,             \* position inside best_unique_matches
    tok_text,       \* tokenizer run: the input string x
    tok_once,       \* tokenizer run: token_set(x, COMMON_STOPWORDS)
    tok_joined,     \* tokenizer run: " ".join(tok_once)
    tok_twice,      \* tokenizer run: token_set(tok_joined, COMMON_STOPWORDS)
    tok_pc,         \* position inside the tokenizer run
    hl_user_text,        \* highlight_autocompleted: argument user_text
    hl_matched_text,     \* highlight_autocompleted: argument matched_text
    hl_user_words_norm,  \* highlight_autocompleted: the reference set
    hl_out,              \* highlight_autocompleted: the list out
    hl_k,                \* highlight_autocompleted: words of matched_text done
    hl_result,           \* highlight_autocompleted: the returned string
    hl_pc,               \* position inside highlight_autocompleted
    rtf_fragment,   \* _html_fragment_to_rtf: argument fragment
    rtf_txt,        \* _html_fragment_to_rtf: txt
    rtf_pos,        \* _html_fragment_to_rtf: pos (Python, 0-based)
    rtf_stack,      \* _html_fragment_to_rtf: stack of flag records
    rtf_out,        \* _html_fragment_to_rtf: the list out
    rtf_result,     \* _html_fragment_to_rtf: the returned string
    rtf_pc,         \* position inside _html_fragment_to_rtf
    nc_input,       \* normalize_colors_keep_exact: argument html
    nc_html,        \* normalize_colors_keep_exact: html after the passes done
    nc_pc,          \* position inside normalize_colors_keep_exact
    fr_department,    \* FinalReviewDialog.__init__: department_name
    fr_user_lines,    \* FinalReviewDialog.__init__: user_lines
    fr_full_matches,  \* FinalReviewDialog.__init__: full_matches
    fr_override_set,  \* FinalReviewDialog: self.override_set
    fr_keep_set,      \* FinalReviewDialog: self.keep_set
    fr_all_items,     \* FinalReviewDialog.__init__: all_items
    fr_idx,           \* FinalReviewDialog.__init__: loop index (0-based)
    fr_pc,            \* position inside FinalReviewDialog.__init__
    wf_kind,          \* workflow: "main" (app.main) or "run" (clause_checker.run)
    wf_department,    \* workflow: department of the logged-in user
    wf_file,          \* the clause library file on disk
    wf_text,          \* workflow: text returned by the input dialog
    wf_lines,         \* workflow: lines
    wf_clauses,       \* workflow: clauses
    wf_matches,       \* workflow: matches
    wf_override_set,  \* workflow: override_set
    wf_keep_set,      \* workflow: keep_set
    wf_pc,            \* workflow: the dialog that is open, or where it ended
    dlg_override_checked,  \* ComparisonDialog: indices whose override button is checked
    dlg_keep_checked,      \* ComparisonDialog: indices whose keep button is checked
    dlg_override_set,      \* open dialog: self.override_set
    dlg_keep_set,          \* open dialog: self.keep_set
    call_args,      \* caller of best_unique_matches: the arguments as they were passed
    call_log,       \* caller of best_unique_matches: arguments and result of the calls made
    bul_items,      \* build_rtf_bullets_from_items: html of each item of items_sorted
    bul_parts,      \* build_rtf_bullets_from_items: the list parts
    bul_k,          \* build_rtf_bullets_from_items: items handled by the loop
    bul_result,     \* build_rtf_bullets_from_items: the returned bytes
    bul_pc,         \* position inside build_rtf_bullets_from_items
    sg_tok,         \* singularize on a word and its plural: the word w
    sg_single,      \* singularize(w)
    sg_plural,      \* singularize(w + "s")
    sg_pc,          \* position inside that run
    cmp_library,    \* workflow: the clauses the matches were computed from
    cmp_user_lines, \* ComparisonDialog.__init__: user_lines
    cmp_matches,    \* ComparisonDialog.__init__: matches
    cmp_tokens,     \* ComparisonDialog: tokens of each matched row (_matched_rows)
    cmp_idx,        \* ComparisonDialog.__init__: loop index (0-based)
    cmp_pc          \* position inside ComparisonDialog.__init__

resolverVars == << user_lines, clauses, department, line_results, best_for_key,
                   final, idx, pc >>

tokVars == << tok_text, tok_once, tok_joined, tok_twice, tok_pc >>

hlVars == << hl_user_text, hl_matched_text, hl_user_words_norm, hl_out, hl_k,
             hl_result, hl_pc >>

rtfVars == << rtf_fragment, rtf_txt, rtf_pos, rtf_stack, rtf_out, rtf_result, rtf_pc >>

ncVars == << nc_input, nc_html, nc_pc >>

frVars == << fr_department, fr_user_lines, fr_full_matches, fr_override_set,
             fr_keep_set, fr_all_items, fr_idx, fr_pc >>

wfVars == << wf_kind, wf_department, wf_file, wf_text, wf_lines, wf_clauses,
             wf_matches, wf_override_set, wf_keep_set, wf_pc,
             dlg_override_checked, dlg_keep_checked, dlg_override_set, dlg_keep_set >>

callVars == << call_args, call_log >>

bulVars == << bul_items, bul_parts, bul_k, bul_result, bul_pc >>

sgVars == << sg_tok, sg_single, sg_plural, sg_pc >>

cmpVars == << cmp_library, cmp_user_lines, cmp_matches, cmp_tokens, cmp_idx, cmp_pc >>

\* the variables of the user-interface layer and of the callers
uiVars == << hlVars, rtfVars, ncVars, frVars, wfVars, callVars, bulVars, sgVars, cmpVars >>

vars == << resolverVars, tokVars, uiVars >>

----------------------------------------------------------------------------
(* Characters and the str predicates the engine uses.                      *)

LowerSeq == << "a", "b", "c", "d", "e", "f", "g", "h", "i", "j", "k", "l", "m",
               "n", "o", "p", "q", "r", "s", "t", "u", "v", "w", "x", "y", "z" >>

UpperSeq == << "A", "B", "C", "D", "E", "F", "G", "H", "I", "J", "K", "L", "M",
               "N", "O", "P", "Q", "R", "S", "T", "U", "V", "W", "X", "Y", "Z" >>

Range(f) == { f[i] : i \in DOMAIN f }

Digits == { "0", "1", "2", "3", "4", "5", "6", "7", "8", "9" }

\* str.isspace, one character
IsSpace(c) == c \in { " ", "\t" }

\* the characters str.isalnum accepts (the combining accent U+0301 is a mark, not
\* alphanumeric)
Alnum == Range(LowerSeq) \cup Range(UpperSeq) \cup Digits \cup { "U+00E9" }

\* str.isalnum, one character
IsAlnum(c) == c \in Alnum

\* the regular expression class \w: alphanumerics and the underscore
IsWordChar(c) == IsAlnum(c) \/ c = "_"

\* the lower-case letter of each upper-case letter
ToLower == [ c \in Range(UpperSeq) |-> LowerSeq[CHOOSE i \in DOMAIN UpperSeq : UpperSeq[i] = c] ]

\* str.lower, one character
LowerChar(c) == IF c \in DOMAIN ToLower THEN ToLower[c] ELSE c

\* str.lower
Lower(text) == [ i \in 1..Len(text) |-> LowerChar(text[i]) ]

\* str.isdigit: non-empty and every character a digit
IsDigitStr(w) == Len(w) > 0 /\ \A i \in 1..Len(w) : w[i] \in Digits

\* str.endswith
EndsWith(t, suf) ==
    Len(t) >= Len(suf) /\ SubSeq(t, Len(t) - Len(suf) + 1, Len(t)) = suf

\* t[:-k]
DropLast(t, k) == SubSeq(t, 1, Len(t) - k)

\* str.split(): the maximal runs of non-whitespace characters, in order
RECURSIVE SplitFrom(_, _, _, _)
SplitFrom(s, i, cur, acc) ==
    IF i > Len(s)
    THEN IF cur = << >> THEN acc ELSE Append(acc, cur)
    ELSE IF IsSpace(s[i])
         THEN SplitFrom(s, i + 1, << >>, IF cur = << >> THEN acc ELSE Append(acc, cur))
         ELSE SplitFrom(s, i + 1, Append(cur, s[i]), acc)

Split(s) == SplitFrom(s, 1, << >>, << >>)

\* " ".join(parts)
RECURSIVE JoinSpace(_)
JoinSpace(parts) ==
    IF parts = << >> THEN << >>
    ELSE IF Len(parts) = 1 THEN parts[1]
    ELSE parts[1] \o << " " >> \o JoinSpace(Tail(parts))

----------------------------------------------------------------------------
(* clean_text: quotes, NFKD, lower case, punctuation to spaces.            *)

\* the four str.replace calls on typographic quotes
ReplaceQuotes(text) ==
    [ i \in 1..Len(text) |->
        IF text[i] \in { "U+2019", "U+2018" } THEN "'"
        ELSE IF text[i] \in { "U+201C", "U+201D" } THEN "\""
        ELSE text[i] ]

\* unicodedata.normalize("NFKD", c) of one character
NfkdChar(c) == IF c = "U+00E9" THEN << "e", "U+0301" >> ELSE << c >>

RECURSIVE NfkdFrom(_, _, _)
NfkdFrom(text, i, acc) ==
    IF i > Len(text) THEN acc ELSE NfkdFrom(text, i + 1, acc \o NfkdChar(text[i]))

\* unicodedata.normalize("NFKD", text)
Nfkd(text) == NfkdFrom(text, 1, << >>)

clean_text(text) ==
    LET low == Lower(Nfkd(ReplaceQuotes(text)))
    IN  [ i \in 1..Len(low) |->
            IF IsAlnum(low[i]) \/ IsSpace(low[i]) THEN low[i] ELSE " " ]

COMMON_STOPWORDS ==
    { <<"a", "n", "d">>,
      <<"o", "r">>,
      <<"o", "f">>,
      <<"t", "h", "e">>,
      <<"c", "l", "a", "u", "s", "e">>,
      <<"l", "i", "m", "i", "t">>,
      <<"v", "a", "l", "u", "e">>,
      <<"i", "n">>,
      <<"p", "r", "o", "p", "e", "r", "t", "y">>,
      <<"p", "o", "l", "i", "c", "y">>,
      <<"i", "n", "s", "u", "r", "e", "d">>,
      <<"i", "n", "s", "u", "r", "a", "n", "c", "e">>,
      <<"c", "o", "m", "p", "a", "n", "y">>,
      <<"b", "e">>,
      <<"i", "s">>,
      <<"a", "r", "e">>,
      <<"t", "o">>,
      <<"f", "o", "r">>,
      <<"o", "n">>,
      <<"b", "y">>,
      <<"w", "i", "t", "h">>,
      <<"a", "t">>,
      <<"a", "n">>,
      <<"a">>,
      <<"a", "s">>,
      <<"i", "t">>,
      <<"t", "h", "i", "s">>,
      <<"t", "h", "a", "t">>,
      <<"s", "h", "a", "l", "l">>,
      <<"m", "a", "y">>,
      <<"e", "a", "c", "h">>,
      <<"d", "a", "y">>,
      <<"d", "a", "y", "s">>,
      <<"n", "o", "t", "i", "c", "e">>,
      <<"w", "i", "t", "h", "i", "n">>,
      <<"p", "e", "r", "i", "o", "d">>,
      <<"t", "i", "m", "e">>,
      <<"a", "n", "y">>,
      <<"e", "v", "e", "n", "t">>,
      <<"r", "e", "q", "u", "e", "s", "t">>,
      <<"p", "o", "r", "t", "i", "o", "n">>,
      <<"b", "e", "e", "n">>,
      <<"f", "o", "r", "c", "e">>,
      <<"s", "u", "b", "j", "e", "c", "t">>,
      <<"a", "l", "s", "o">>,
      <<"t", "e", "r", "m", "s">>,
      <<"a", "g", "r", "e", "e", "m", "e", "n", "t">>,
      <<"a", "p", "p", "l", "i", "c", "a", "b", "l", "e">>,
      <<"p", "r", "o", "v", "i", "d", "e", "d">>,
      <<"a", "l", "w", "a", "y", "s">>,
      <<"n", "o">>,
      <<"r", "e", "f", "u", "n", "d">>,
      <<"a", "l", "l", "o", "w", "e", "d">>,
      <<"u", "p", "o", "n">>,
      <<"p", "e", "r">>,
      <<"u", "p">>,
      <<"s", "u", "c", "h">>,
      <<"b", "u", "t">>,
      <<"n", "o", "t">>,
      <<"f", "r", "o", "m">>,
      <<"l", "a", "s", "t">>,
      <<"k", "n", "o", "w", "n">>,
      <<"a", "d", "d", "r", "e", "s", "s">>,
      <<"l", "e", "t", "t", "e", "r">>,
      <<"r", "e", "g", "i", "s", "t", "e", "r", "e", "d">>,
      <<"a", "d", "j", "u", "s", "t", "e", "d">>,
      <<"p", "r", "o">>,
      <<"r", "a", "t", "a">>,
      <<"s", "h", "o", "r", "t">>,
      <<"l", "o", "n", "g">>,
      <<"t", "e", "r", "m">>,
      <<"i", "f">>,
      <<"h", "a", "s">>,
      <<"u", "n", "d", "e", "r">>,
      <<"c", "o", "s", "t">>,
      <<"c", "o", "s", "t", "s">>,
      <<"l", "o", "s", "s">> }

----------------------------------------------------------------------------
(* singularize and token_set.                                              *)

PluralSuffixes ==
    { <<"s","s","e","s">>, <<"x","e","s">>, <<"z","e","s">>,
      <<"c","h","e","s">>, <<"s","h","e","s">> }

singularize(tok) ==
    LET t == Lower(tok)
    IN  IF Len(t) <= 3 THEN t
        ELSE IF EndsWith(t, <<"i","e","s">>) /\ Len(t) > 4
             THEN DropLast(t, 3) \o <<"y">>
        ELSE IF \E suf \in PluralSuffixes : EndsWith(t, suf)
             THEN DropLast(t, 2)
        ELSE IF /\ EndsWith(t, <<"e","s">>)
                /\ ~ \E v \in { "a", "e", "o" } : EndsWith(t, << v, "e", "s" >>)
                /\ Len(t) > 4
             THEN DropLast(t, 2)
        ELSE IF EndsWith(t, <<"s">>) /\ ~ EndsWith(t, <<"s","s">>)
             THEN DropLast(t, 1)
        ELSE t

\* the words of clean_text(s).split() that pass the two filters before singularize
KeptWords(s) ==
    LET ws == Split(clean_text(s))
    IN  { ws[i] : i \in { j \in 1..Len(ws) : ~ IsDigitStr(ws[j]) /\ Len(ws[j]) > 2 } }

token_set(s, stopwords) ==
    { singularize(w) : w \in KeptWords(s) } \ stopwords


----------------------------------------------------------------------------
(* Protected wording detectors (re.search, IGNORECASE).                    *)

\* \b at position p: between text[p-1] and text[p]; outside the text is not a word
IsWordAt(text, k) == k \in 1..Len(text) /\ IsWordChar(text[k])

BoundaryAt(text, p) == IsWordAt(text, p - 1) # IsWordAt(text, p)

\* the literal lit (lower case) matches at position i, ignoring case
LiteralAt(text, i, lit) ==
    /\ i >= 1
    /\ i + Len(lit) - 1 <= Len(text)
    /\ \A k \in 1..Len(lit) : LowerChar(text[i + k - 1]) = lit[k]

\* LM7_PATTERN = \blm[\s\-]*7\b
is_lm7_line(text) ==
    \E i \in 1..Len(text) :
        /\ LiteralAt(text, i, <<"l","m">>)
        /\ BoundaryAt(text, i)
        /\ \E j \in (i + 2)..Len(text) :
              /\ \A k \in (i + 2)..(j - 1) : IsSpace(text[k]) \/ text[k] = "-"
              /\ text[j] = "7"
              /\ BoundaryAt(text, j + 1)

\* PAYMENT_WARRANTY_PATTERN = \bpayment\s*[-/]?\s*warranty\b
is_payment_warranty_line(text) ==
    \E i \in 1..Len(text) :
        /\ LiteralAt(text, i, <<"p","a","y","m","e","n","t">>)
        /\ BoundaryAt(text, i)
        /\ \E j \in (i + 7)..Len(text) :
              /\ \A k \in (i + 7)..(j - 1) : IsSpace(text[k]) \/ text[k] \in { "-", "/" }
              /\ Cardinality({ k \in (i + 7)..(j - 1) : text[k] \in { "-", "/" } }) <= 1
              /\ LiteralAt(text, j, <<"w","a","r","r","a","n","t","y">>)
              /\ BoundaryAt(text, j + 8)

\* a variant of is_temporary_line that never fires
is_temporary_line_never(text) == FALSE

\* TEMPORARY_PATTERN = \btemporary\b
is_temporary_line(text) ==
    \E i \in 1..Len(text) :
        /\ LiteralAt(text, i, <<"t","e","m","p","o","r","a","r","y">>)
        /\ BoundaryAt(text, i)
        /\ BoundaryAt(text, i + 9)

----------------------------------------------------------------------------
(* match_clause_with_score.  A clause is a record; Name stands for the     *)
(* field "Name of Clause", and a clause without "Limit" reads back as the  *)
(* empty text through dict.get.                                            *)

None == [ none |-> TRUE ]

NoMatch == [ m |-> None, score |-> 0 ]

\* a variant of candidate_score without the weight of the name overlap
candidate_score_flat(base_overlap, name_overlap) == 10 * base_overlap

\* score = 10 * base_overlap + 5 * name_overlap
candidate_score(base_overlap, name_overlap) == 10 * base_overlap + 5 * name_overlap

\* a variant of replaces_best without the tie-break on the name length
replaces_best_no_tiebreak(score, clause, best_match, best_score) == score > best_score

\* the condition under which the loop replaces (best_match, best_score)
replaces_best(score, clause, best_match, best_score) ==
    \/ score > best_score
    \/ /\ score = best_score
       /\ best_match # None
       /\ Len(clause.Name) < Len(best_match.Name)

\* name_tokens = token_set(clause.get("Name of Clause", ""), stopwords)
name_tokens_of(clause) == token_set(clause.Name, COMMON_STOPWORDS)

\* pool = name_tokens | token_set(" ".join(clause.get("Keywords", [])), stopwords)
scorer_pool_of(clause, name_tokens) ==
    name_tokens \cup token_set(JoinSpace(clause.Keywords), COMMON_STOPWORDS)

\* the for loop over the library, from clause number i on
RECURSIVE ScanClauses(_, _, _, _, _)
ScanClauses(user_words, cls, i, best_match, best_score) ==
    IF i > Len(cls) THEN [ m |-> best_match, score |-> best_score ]
    ELSE LET clause       == cls[i]
             name_tokens  == name_tokens_of(clause)
             pool         == scorer_pool_of(clause, name_tokens)
             base_overlap == Cardinality(user_words \cap pool)
             name_overlap == Cardinality(user_words \cap name_tokens)
             score        == candidate_score(base_overlap, name_overlap)
         IN  IF replaces_best(score, clause, best_match, best_score)
             THEN ScanClauses(user_words, cls, i + 1, clause, score)
             ELSE ScanClauses(user_words, cls, i + 1, best_match, best_score)

\* a variant of accept_best that asks for more than 10
accept_best_above(best) == IF best.score > 10 THEN best ELSE NoMatch

\* the return statement: at least one strong signal
accept_best(best) == IF best.score >= 10 THEN best ELSE NoMatch

match_clause_with_score(user_text, cls) ==
    IF is_lm7_line(user_text) THEN NoMatch
    ELSE IF is_temporary_line(user_text) THEN NoMatch
    ELSE IF is_payment_warranty_line(user_text) THEN NoMatch
    ELSE LET user_words == token_set(user_text, COMMON_STOPWORDS)
         IN  IF user_words = { } THEN NoMatch
             ELSE accept_best(ScanClauses(user_words, cls, 1, None, 0))

----------------------------------------------------------------------------
(* best_unique_matches, one action per statement or loop iteration.        *)

\* a variant of uniqueness_key that ignores the department and the limit
uniqueness_key_name_only(m, dept) == << m.Name >>

\* the uniqueness key of a matched clause
uniqueness_key(m, dept) ==
    IF dept = "Liability" THEN << m.Name >> ELSE << m.Name, m.Limit >>

\* a variant of takes_key in which a lower score takes the key
takes_key_lower(best, key, score) ==
    key \notin DOMAIN best \/ score < best[key].score

\* a variant of takes_key in which an equal score takes the key
takes_key_or_equal(best, key, score) ==
    key \notin DOMAIN best \/ score >= best[key].score

\* first loop body: key not in best_for_key or score > best_for_key[key][1]
takes_key(best, key, score) ==
    key \notin DOMAIN best \/ score > best[key].score

\* best_for_key[key] = (idx, score)
put_key(best, key, i, score) ==
    [ k \in DOMAIN best \cup { key } |->
        IF k = key THEN [ idx |-> i, score |-> score ] ELSE best[k] ]

\* a variant of final_entry that demotes no line
final_entry_keep_all(m, i, winner_idx) == m

\* a variant of final_entry that gives a demoted line the winner's clause
final_entry_winner_clause(m, i, winner_idx) == line_results[winner_idx + 1].m

\* second loop body: what final.append receives for a matched line
final_entry(m, i, winner_idx) == IF i = winner_idx THEN m ELSE None

\* mutation of best_for_key_new: the dict of the previous call is used again
best_for_key_kept(left) == left

\* best_for_key = {}: a new dict in every call, whatever an earlier call left
best_for_key_new(left) == << >>

\* line_results = [match_clause_with_score(ln, clauses) for ln in user_lines]
ScoreLines ==
    /\ pc = "call"
    /\ line_results' =
          [ i \in 1..Len(user_lines) |-> match_clause_with_score(user_lines[i], clauses) ]
    /\ best_for_key' = best_for_key_new(best_for_key)
    /\ idx' = 0
    /\ pc' = "group"
    /\ UNCHANGED << user_lines, clauses, department, final, tokVars, uiVars >>

\* one iteration of: for idx, (m, score) in enumerate(line_results)
GroupStep ==
    /\ pc = "group"
    /\ idx < Len(line_results)
    /\ LET r   == line_results[idx + 1]
           key == uniqueness_key(r.m, department)
       IN  best_for_key' =
              IF r.m = None THEN best_for_key
              ELSE IF takes_key(best_for_key, key, r.score)
                   THEN put_key(best_for_key, key, idx, r.score)
                   ELSE best_for_key
    /\ idx' = idx + 1
    /\ UNCHANGED << user_lines, clauses, department, line_results, final, pc, tokVars, uiVars >>

\* the first loop is exhausted; final = []
GroupDone ==
    /\ pc = "group"
    /\ idx = Len(line_results)
    /\ final' = << >>
    /\ idx' = 0
    /\ pc' = "build"
    /\ UNCHANGED << user_lines, clauses, department, line_results, best_for_key, tokVars, uiVars >>

\* one iteration of the second loop
BuildStep ==
    /\ pc = "build"
    /\ idx < Len(line_results)
    /\ LET r == line_results[idx + 1]
       IN  final' =
              IF r.m = None THEN Append(final, None)
              ELSE LET key == uniqueness_key(r.m, department)
                   IN  Append(final, final_entry(r.m, idx, best_for_key[key].idx))
    /\ idx' = idx + 1
    /\ UNCHANGED << user_lines, clauses, department, line_results, best_for_key, pc,
                    tokVars, uiVars >>

\* return final
BuildDone ==
    /\ pc = "build"
    /\ idx = Len(line_results)
    /\ pc' = "done"
    /\ UNCHANGED << user_lines, clauses, department, line_results, best_for_key, final,
                    idx, tokVars, uiVars >>


----------------------------------------------------------------------------
(* The inputs the runs are started on.                                     *)

MaxLines == 3      \* longest list of lines passed to best_unique_matches
MaxClauses == 2    \* largest clause library
MaxWords == 2      \* most words in a text given to the tokenizer run

\* config.DEPARTMENTS: "Liability" and one of the others
Departments == { "Liability", "Property / Special Risks" }

\* {War Exclusion; war, hostilities; no limit}
ClauseWarExclusion ==
    [ Name |-> <<"W", "a", "r", " ", "E", "x", "c", "l", "u", "s", "i", "o", "n">>,
      Keywords |-> << <<"w", "a", "r">>, <<"h", "o", "s", "t", "i", "l", "i", "t", "i", "e", "s">> >>,
      Limit |-> <<>> ]

\* {War; damage; no limit}
ClauseWar ==
    [ Name |-> <<"W", "a", "r">>,
      Keywords |-> << <<"d", "a", "m", "a", "g", "e">> >>,
      Limit |-> <<>> ]

\* {Fire; smoke; 100}
ClauseFire100 ==
    [ Name |-> <<"F", "i", "r", "e">>,
      Keywords |-> << <<"s", "m", "o", "k", "e">> >>,
      Limit |-> <<"1", "0", "0">> ]

\* {Fire; flames; 200}
ClauseFire200 ==
    [ Name |-> <<"F", "i", "r", "e">>,
      Keywords |-> << <<"f", "l", "a", "m", "e", "s">> >>,
      Limit |-> <<"2", "0", "0">> ]

ClauseSet == { ClauseWarExclusion, ClauseWar, ClauseFire100, ClauseFire200 }

\* the libraries: up to MaxClauses clauses in any order, each listed once
Libraries ==
    UNION { { lib \in [ 1..n -> ClauseSet ] : \A i, j \in 1..n : lib[i] = lib[j] => i = j } :
            n \in 0..MaxClauses }

\* lines of the lists of up to MaxLines lines: "fire smoke"; "Fire, flames!"; "LM-7 war"
LineSet ==
    { <<"f", "i", "r", "e", " ", "s", "m", "o", "k", "e">>,
      <<"F", "i", "r", "e", ",", " ", "f", "l", "a", "m", "e", "s", "!">>,
      <<"L", "M", "-", "7", " ", "w", "a", "r">> }

\* lines passed alone: ""; "War and hostilities excluded"; "War damage"; "  \t "; "the policy 30 of"; "Unrelated remark"; "war"; "WARS"; "fire"; "hostilities"; "flames and smoke"; "LM7"; "lm 7 war"; "Lm - 7 fire"; "XLM7 war"; "LM70 war"; "LM_7 war"; "Temporary war cover"; "fire (TEMPORARY)"; "contemporary war"; "Payment Warranty war"; "payment-warranty fire"; "payment / warranty war"; "PAYMENT/WARRANTY"; "prepayment warranty war"; "payment-/warranty war"; "war’s damage"; "café fire"
SingleLines ==
    { <<>>,
      <<"W", "a", "r", " ", "d", "a", "m", "a", "g", "e">>,
      <<" ", " ", "\t", " ">>,
      <<"t", "h", "e", " ", "p", "o", "l", "i", "c", "y", " ", "3", "0", " ", "o", "f">>,
      <<"U", "n", "r", "e", "l", "a", "t", "e", "d", " ", "r", "e", "m", "a", "r", "k">>,
      <<"w", "a", "r">>,
      <<"W", "A", "R", "S">>,
      <<"f", "i", "r", "e">>,
      <<"h", "o", "s", "t", "i", "l", "i", "t", "i", "e", "s">>,
      <<"f", "l", "a", "m", "e", "s", " ", "a", "n", "d", " ", "s", "m", "o", "k", "e">>,
      <<"L", "M", "7">>,
      <<"l", "m", " ", "7", " ", "w", "a", "r">>,
      <<"L", "m", " ", "-", " ", "7", " ", "f", "i", "r", "e">>,
      <<"X", "L", "M", "7", " ", "w", "a", "r">>,
      <<"L", "M", "7", "0", " ", "w", "a", "r">>,
      <<"L", "M", "_", "7", " ", "w", "a", "r">>,
      <<"T", "e", "m", "p", "o", "r", "a", "r", "y", " ", "w", "a", "r", " ", "c", "o", "v", "e", "r">>,
      <<"f", "i", "r", "e", " ", "(", "T", "E", "M", "P", "O", "R", "A", "R", "Y", ")">>,
      <<"c", "o", "n", "t", "e", "m", "p", "o", "r", "a", "r", "y", " ", "w", "a", "r">>,
      <<"P", "a", "y", "m", "e", "n", "t", " ", "W", "a", "r", "r", "a", "n", "t", "y", " ", "w", "a", "r">>,
      <<"p", "a", "y", "m", "e", "n", "t", "-", "w", "a", "r", "r", "a", "n", "t", "y", " ", "f", "i", "r", "e">>,
      <<"p", "a", "y", "m", "e", "n", "t", " ", "/", " ", "w", "a", "r", "r", "a", "n", "t", "y", " ", "w", "a", "r">>,
      <<"P", "A", "Y", "M", "E", "N", "T", "/", "W", "A", "R", "R", "A", "N", "T", "Y">>,
      <<"p", "r", "e", "p", "a", "y", "m", "e", "n", "t", " ", "w", "a", "r", "r", "a", "n", "t", "y", " ", "w", "a", "r">>,
      <<"p", "a", "y", "m", "e", "n", "t", "-", "/", "w", "a", "r", "r", "a", "n", "t", "y", " ", "w", "a", "r">>,
      <<"w", "a", "r", "U+2019", "s", " ", "d", "a", "m", "a", "g", "e">>,
      <<"c", "a", "f", "U+00E9", " ", "f", "i", "r", "e">> }

LineLists ==
    UNION { [ 1..n -> LineSet ] : n \in 0..MaxLines } \cup { << l >> : l \in SingleLines }

\* words of the texts given to the tokenizer run
TokWords ==
    { <<"w", "a", "r", "s">>,
      <<"e", "x", "p", "e", "n", "s", "e", "s">>,
      <<"p", "o", "l", "i", "c", "i", "e", "s">>,
      <<"c", "l", "a", "s", "s", "e", "s">>,
      <<"C", "r", "i", "s", "e", "s">>,
      <<"1", "2", "3", "s">>,
      <<"t", "h", "e">>,
      <<"3", "0">>,
      <<"F", "i", "r", "e", ",">>,
      <<"a", "b">>,
      <<"l", "o", "s", "s", "e", "s">>,
      <<"h", "o", "s", "t", "i", "l", "i", "t", "i", "e", "s">> }

TokTexts ==
    { JoinSpace(ws) : ws \in UNION { [ 1..n -> TokWords ] : n \in 0..MaxWords } }

\* the orders in which iterating the set S can yield its elements
Orderings(S) ==
    { f \in [ 1..Cardinality(S) -> S ] : \A i, j \in 1..Cardinality(S) : f[i] = f[j] => i = j }

----------------------------------------------------------------------------
(* The tokenizer run: token_set, " ".join over the returned set, token_set. *)

Tokenize ==
    /\ tok_pc = "start"
    /\ tok_once' = token_set(tok_text, COMMON_STOPWORDS)
    /\ tok_pc' = "tokenized"
    /\ UNCHANGED << tok_text, tok_joined, tok_twice, resolverVars, uiVars >>

JoinTokens ==
    /\ tok_pc = "tokenized"
    /\ \E order \in Orderings(tok_once) : tok_joined' = JoinSpace(order)
    /\ tok_pc' = "joined"
    /\ UNCHANGED << tok_text, tok_once, tok_twice, resolverVars, uiVars >>

Retokenize ==
    /\ tok_pc = "joined"
    /\ tok_twice' = token_set(tok_joined, COMMON_STOPWORDS)
    /\ tok_pc' = "done"
    /\ UNCHANGED << tok_text, tok_once, tok_joined, resolverVars, uiVars >>

----------------------------------------------------------------------------
(* Specifications.                                                         *)

ResolverIdle ==
    /\ user_lines = << >>
    /\ clauses = << >>
    /\ department = "Liability"
    /\ line_results = << >>
    /\ best_for_key = << >>
    /\ final = << >>
    /\ idx = 0
    /\ pc = "idle"

TokIdle ==
    /\ tok_text = << >>
    /\ tok_once = { }
    /\ tok_joined = << >>
    /\ tok_twice = { }
    /\ tok_pc = "idle"

HlIdle ==
    /\ hl_user_text = << >>
    /\ hl_matched_text = << >>
    /\ hl_user_words_norm = { }
    /\ hl_out = << >>
    /\ hl_k = 0
    /\ hl_result = << >>
    /\ hl_pc = "idle"

RtfIdle ==
    /\ rtf_fragment = << >>
    /\ rtf_txt = << >>
    /\ rtf_pos = 0
    /\ rtf_stack = << >>
    /\ rtf_out = << >>
    /\ rtf_result = << >>
    /\ rtf_pc = "idle"

NcIdle ==
    /\ nc_input = << >>
    /\ nc_html = << >>
    /\ nc_pc = "idle"

FrIdle ==
    /\ fr_department = "Liability"
    /\ fr_user_lines = << >>
    /\ fr_full_matches = << >>
    /\ fr_override_set = { }
    /\ fr_keep_set = { }
    /\ fr_all_items = << >>
    /\ fr_idx = 0
    /\ fr_pc = "idle"

WfIdle ==
    /\ wf_kind = "main"
    /\ wf_department = "Liability"
    /\ wf_file = [ kind |-> "missing" ]
    /\ wf_text = << >>
    /\ wf_lines = << >>
    /\ wf_clauses = << >>
    /\ wf_matches = << >>
    /\ wf_override_set = { }
    /\ wf_keep_set = { }
    /\ wf_pc = "idle"
    /\ dlg_override_checked = { }
    /\ dlg_keep_checked = { }
    /\ dlg_override_set = { }
    /\ dlg_keep_set = { }

CallIdle ==
    /\ call_args = << >>
    /\ call_log = << >>

BulIdle ==
    /\ bul_items = << >>
    /\ bul_parts = << >>
    /\ bul_k = 0
    /\ bul_result = << >>
    /\ bul_pc = "idle"

SgIdle ==
    /\ sg_tok = << >>
    /\ sg_single = << >>
    /\ sg_plural = << >>
    /\ sg_pc = "idle"

CmpIdle ==
    /\ cmp_library = << >>
    /\ cmp_user_lines = << >>
    /\ cmp_matches = << >>
    /\ cmp_tokens = << >>
    /\ cmp_idx = 0
    /\ cmp_pc = "idle"

UiIdle == HlIdle /\ RtfIdle /\ NcIdle /\ FrIdle /\ WfIdle /\ CallIdle /\ BulIdle /\ SgIdle /\ CmpIdle

\* a call of best_unique_matches(user_lines, clauses, department)
Init ==
    /\ user_lines \in LineLists
    /\ clauses \in Libraries
    /\ department \in Departments
    /\ line_results = << >>
    /\ best_for_key = << >>
    /\ final = << >>
    /\ idx = 0
    /\ pc = "call"
    /\ TokIdle
    /\ UiIdle

Next ==
    \/ ScoreLines
    \/ GroupStep
    \/ GroupDone
    \/ BuildStep
    \/ BuildDone

Spec == Init /\ [][Next]_vars

\* a tokenizer run on the text tok_text
InitTok ==
    /\ tok_text \in TokTexts
    /\ tok_once = { }
    /\ tok_joined = << >>
    /\ tok_twice = { }
    /\ tok_pc = "start"
    /\ ResolverIdle
    /\ UiIdle

NextTok ==
    \/ Tokenize
    \/ JoinTokens
    \/ Retokenize

SpecTok == InitTok /\ [][NextTok]_vars

----------------------------------------------------------------------------
(* Vocabulary of the properties.  These definitions state what is claimed  *)
(* of the engine; they do not take part in any action.                     *)

Positions == 1..Len(line_results)

\* the Scorer matched line i
Matched(i) == line_results[i].m # None

\* the uniqueness key as the data model states it
ClaimKey(c) ==
    IF department = "Liability" THEN << c.Name >> ELSE << c.Name, c.Limit >>

\* lines i and j were matched by the Scorer to clauses sharing a uniqueness key
SameKey(i, j) ==
    /\ Matched(i)
    /\ Matched(j)
    /\ ClaimKey(line_results[i].m) = ClaimKey(line_results[j].m)

\* line i holds a match in the output
Holds(i) == i \in DOMAIN final /\ final[i] # None

\* no other line reaches a higher score for the key of line i
IsTop(i) == \A j \in Positions : SameKey(i, j) => line_results[j].score <= line_results[i].score

\* C1: in the output of best_unique_matches every uniqueness key carried by at
\* least one line's Scorer result is held by exactly one output position.
C1_OneHolderPerKey ==
    pc = "done" =>
        \A j \in Positions :
            Matched(j) =>
                Cardinality({ i \in DOMAIN final :
                                /\ final[i] # None
                                /\ ClaimKey(final[i]) = ClaimKey(line_results[j].m) }) = 1

\* two lines competed for one key and the run is complete
C1_Witness ==
    /\ pc = "done"
    /\ \E i, j \in Positions : i # j /\ SameKey(i, j)

\* C2: the line that keeps its match for a key has a score greater than or equal
\* to the score of every other line whose Scorer result has that key.
C2_WinnerHasMaxScore ==
    pc = "done" =>
        \A i, j \in Positions :
            (Holds(i) /\ SameKey(i, j)) => line_results[i].score >= line_results[j].score

\* a later line took the key from an earlier line with a strictly lower score
C2_Witness ==
    /\ pc = "done"
    /\ \E i, j \in Positions :
          /\ j < i
          /\ SameKey(i, j)
          /\ line_results[i].score > line_results[j].score
          /\ Holds(i)
          /\ ~ Holds(j)

\* C3: among the lines that reach the highest score for a key, the one with the
\* smallest index keeps the match and every later one is demoted.
C3_EarliestTieWins ==
    pc = "done" =>
        \A i \in Positions :
            (Matched(i) /\ IsTop(i)) =>
                (Holds(i) <=> \A j \in Positions : (SameKey(i, j) /\ IsTop(j)) => i <= j)

\* three lines tie at the highest score of one key
C3_Witness ==
    /\ pc = "done"
    /\ \E i, j, k \in Positions :
          /\ i < j
          /\ j < k
          /\ SameKey(i, j)
          /\ SameKey(i, k)
          /\ IsTop(i)
          /\ IsTop(j)
          /\ IsTop(k)
          /\ Holds(i)
          /\ ~ Holds(j)
          /\ ~ Holds(k)

\* lines i and j were matched to clauses with the same name and different limits
SameNameOtherLimit(i, j) ==
    /\ Matched(i)
    /\ Matched(j)
    /\ line_results[i].m.Name = line_results[j].m.Name
    /\ line_results[i].m.Limit # line_results[j].m.Limit

\* no third line was matched to a clause sharing a uniqueness key with the clause
\* of line i or of line j
NoThirdCompetitor(i, j) ==
    \A k \in Positions \ { i, j } : ~ SameKey(k, i) /\ ~ SameKey(k, j)

C4_WitnessLiability ==
    /\ pc = "done"
    /\ department = "Liability"
    /\ \E i, j \in Positions : SameNameOtherLimit(i, j) /\ Holds(i) /\ ~ Holds(j)

\* C5: the output has the length of the input and output[i] is either no match
\* or exactly the clause the Scorer returns for lines[i]; a line the Scorer did
\* not match never gains a match.
C5_PositionwiseFilter ==
    pc = "done" =>
        /\ Len(final) = Len(user_lines)
        /\ Len(line_results) = Len(user_lines)
        /\ \A i \in DOMAIN final : final[i] = None \/ final[i] = line_results[i].m

\* a matched line was demoted and an unmatched line stayed unmatched
C5_Witness ==
    /\ pc = "done"
    /\ \E i, j, k \in Positions :
          /\ Matched(i) /\ final[i] = None
          /\ Matched(j) /\ final[j] = line_results[j].m
          /\ ~ Matched(k) /\ final[k] = None

\* the Scorer results are in line_results and no loop has run yet
Scored == pc = "group" /\ idx = 0

\* the protected wordings, in lower case: LM7, LM 7, LM-7, payment
\* warranty, payment-warranty, payment/warranty, temporary
ProtectedVariants ==
    { <<"l", "m", "7">>,
      <<"l", "m", " ", "7">>,
      <<"l", "m", "-", "7">>,
      <<"p", "a", "y", "m", "e", "n", "t", " ", "w", "a", "r", "r", "a", "n", "t", "y">>,
      <<"p", "a", "y", "m", "e", "n", "t", "-", "w", "a", "r", "r", "a", "n", "t", "y">>,
      <<"p", "a", "y", "m", "e", "n", "t", "/", "w", "a", "r", "r", "a", "n", "t", "y">>,
      <<"t", "e", "m", "p", "o", "r", "a", "r", "y">> }

\* the text contains the wording lit, in any letter case, as whole word(s)
ContainsWording(text, lit) ==
    \E i \in 1..(Len(text) - Len(lit) + 1) :
        /\ \A k \in 1..Len(lit) : LowerChar(text[i + k - 1]) = lit[k]
        /\ ~ IsWordAt(text, i - 1)
        /\ ~ IsWordAt(text, i + Len(lit))

ClaimProtected(text) == \E lit \in ProtectedVariants : ContainsWording(text, lit)

\* the tokens of a text under the fixed stopword set
Tokens(text) == token_set(text, COMMON_STOPWORDS)

\* the token pool of a clause: name tokens plus the tokens of each keyword
ClaimPool(c) ==
    Tokens(c.Name) \cup UNION { Tokens(c.Keywords[k]) : k \in DOMAIN c.Keywords }

\* for each library position k: the overlap of the text's tokens with the clause's
\* pool and the score 10 * |tokens /\ pool| + 5 * |tokens /\ name tokens|
ClauseScores(text) ==
    LET t == Tokens(text)
    IN  { [ k       |-> k,
            overlap |-> t \cap ClaimPool(clauses[k]),
            score   |-> 10 * Cardinality(t \cap ClaimPool(clauses[k]))
                          + 5 * Cardinality(t \cap Tokens(clauses[k].Name)) ] :
          k \in DOMAIN clauses }

\* the entries of highest score
TopOf(scores) == { r \in scores : \A r2 \in scores : r2.score <= r.score }

\* among the entries of highest score, those whose clause has the shortest name
ShortestTopOf(scores) ==
    { r \in TopOf(scores) :
        \A r2 \in TopOf(scores) : Len(clauses[r.k].Name) <= Len(clauses[r2.k].Name) }

\* C6: a line containing an LM7 variant, "payment warranty" (also with a hyphen or
\* slash) or the word "temporary", in any letter case, gets (no match, 0) from the
\* Scorer and no match at its position in the output, whatever the library and
\* the department.
C6_ProtectedNeverMatched ==
    (Scored \/ pc = "done") =>
        \A i \in DOMAIN user_lines :
            ClaimProtected(user_lines[i]) =>
                /\ line_results[i] = NoMatch
                /\ pc = "done" => final[i] = None

\* a protected line that shares a token with a clause of the library went through
\* the whole run
C6_Witness ==
    /\ pc = "done"
    /\ \E i \in DOMAIN user_lines :
          /\ ClaimProtected(user_lines[i])
          /\ \E r \in ClauseScores(user_lines[i]) : r.overlap # { }
          /\ line_results[i] = NoMatch
          /\ final[i] = None

\* the line is protected as the Scorer decides it
IsProtected(text) ==
    is_lm7_line(text) \/ is_temporary_line(text) \/ is_payment_warranty_line(text)

\* C7: for a line that is not protected the Scorer returns a clause if and only if
\* some clause's token pool shares a token with the line's token set; otherwise it
\* returns exactly (no match, 0); a returned clause has a score of at least 10.
C7_MatchIffOverlap ==
    Scored =>
        \A i \in Positions :
            ~ IsProtected(user_lines[i]) =>
                /\ Matched(i) <=> \E r \in ClauseScores(user_lines[i]) : r.overlap # { }
                /\ ~ Matched(i) => line_results[i] = NoMatch
                /\ Matched(i) => line_results[i].score >= 10

\* an unprotected line was matched
C7_Witness ==
    /\ Scored
    /\ \E i \in Positions :
          /\ ~ IsProtected(user_lines[i])
          /\ Matched(i)
          /\ \E r \in ClauseScores(user_lines[i]) : r.overlap # { }

\* an unprotected line with tokens found no clause in a library that is not empty
C7_WitnessNoOverlap ==
    /\ Scored
    /\ clauses # << >>
    /\ \E i \in Positions :
          /\ ~ IsProtected(user_lines[i])
          /\ Tokens(user_lines[i]) # { }
          /\ line_results[i] = NoMatch

\* the only overlap with the library is one keyword token t that is not a name
\* token of any clause
OnlyOneKeywordToken(scores) ==
    \E r \in scores :
        \E t \in r.overlap :
            /\ \A r2 \in scores : r2.overlap \subseteq { t }
            /\ \A k \in DOMAIN clauses : t \notin Tokens(clauses[k].Name)

\* C8: a returned score is the maximum over the library of
\* 10*|tokens /\ pool| + 5*|tokens /\ name tokens| and the returned clause attains
\* it; a line whose only overlap is one keyword token that is not a name token
\* scores exactly 10 and is accepted.
C8_ScoreIsMaximum ==
    Scored =>
        \A i \in Positions :
            LET scores == ClauseScores(user_lines[i])
            IN  /\ Matched(i) =>
                      \E r \in TopOf(scores) :
                          /\ line_results[i].score = r.score
                          /\ line_results[i].m = clauses[r.k]
                /\ (~ IsProtected(user_lines[i]) /\ OnlyOneKeywordToken(scores)) =>
                      (Matched(i) /\ line_results[i].score = 10)

\* a line was accepted with a score of exactly 10 on one keyword token
C8_Witness ==
    /\ Scored
    /\ \E i \in Positions :
          /\ OnlyOneKeywordToken(ClauseScores(user_lines[i]))
          /\ Matched(i)
          /\ line_results[i].score = 10

\* a line was matched to the clause of highest score where another clause of the
\* library scores lower but above zero
C8_WitnessMaximum ==
    /\ Scored
    /\ \E i \in Positions :
          /\ Matched(i)
          /\ \E r \in ClauseScores(user_lines[i]) :
                r.score > 0 /\ r.score < line_results[i].score

\* C9: among the clauses of maximum score the Scorer returns one whose name is
\* shortest, and among those of equal shortest name length the first in library
\* order.
C9_ShortestNameThenFirst ==
    Scored =>
        \A i \in Positions :
            Matched(i) =>
                LET shortest == ShortestTopOf(ClauseScores(user_lines[i]))
                IN  \E r \in shortest :
                        /\ \A r2 \in shortest : r.k <= r2.k
                        /\ line_results[i].m = clauses[r.k]

\* a later clause with a strictly shorter name replaced an earlier clause of the
\* same score
C9_Witness ==
    /\ Scored
    /\ \E i \in Positions :
          /\ Matched(i)
          /\ \E r1, r2 \in TopOf(ClauseScores(user_lines[i])) :
                /\ r1.k < r2.k
                /\ Len(clauses[r2.k].Name) < Len(clauses[r1.k].Name)
                /\ line_results[i].m = clauses[r2.k]

\* two different clauses of maximum score have names of equal length and the
\* first in library order was returned
C9_WitnessLibraryOrder ==
    /\ Scored
    /\ \E i \in Positions :
          /\ Matched(i)
          /\ \E r1, r2 \in ShortestTopOf(ClauseScores(user_lines[i])) :
                /\ r1.k < r2.k
                /\ clauses[r1.k] # clauses[r2.k]
                /\ line_results[i].m = clauses[r1.k]

\* C10: tokenization is idempotent: token_set of the space-joined tokens of x is
\* token_set(x).
C10_TokenizeIdempotent ==
    tok_pc = "done" => tok_twice = tok_once

----------------------------------------------------------------------------
(* String helpers of the user-interface layer.                             *)

\* the characters of a string literal
Chars(s) == [ i \in 1..Len(s) |-> SubSeq(s, i, i) ]

\* str.strip(chars): drop the characters of cs from both ends
StripChars(t, cs) ==
    LET keep == { i \in 1..Len(t) : t[i] \notin cs }
    IN  IF keep = { } THEN << >>
        ELSE SubSeq(t, CHOOSE i \in keep : \A j \in keep : i <= j,
                       CHOOSE i \in keep : \A j \in keep : j <= i)

\* str.strip()
Strip(t) == StripChars(t, { " ", "\t", "\n" })

\* sub in text
Contains(text, sub) ==
    \E i \in 1..(Len(text) - Len(sub) + 1) : SubSeq(text, i, i + Len(sub) - 1) = sub

\* "".join(parts)
RECURSIVE Concat(_)
Concat(parts) ==
    IF parts = << >> THEN << >> ELSE Head(parts) \o Concat(Tail(parts))

\* index of the first occurrence of sub at or after from, 0 when there is none
FirstOccurrence(text, from, sub) ==
    LET S == { i \in from..(Len(text) - Len(sub) + 1) : SubSeq(text, i, i + Len(sub) - 1) = sub }
    IN  IF S = { } THEN 0 ELSE CHOOSE i \in S : \A j \in S : i <= j

\* str.replace(sub, rep), left to right
RECURSIVE ReplaceFrom(_, _, _, _, _)
ReplaceFrom(text, i, sub, rep, acc) ==
    LET k == FirstOccurrence(text, i, sub)
    IN  IF k = 0 THEN acc \o SubSeq(text, i, Len(text))
        ELSE ReplaceFrom(text, k + Len(sub), sub, rep, acc \o SubSeq(text, i, k - 1) \o rep)

Replace(text, sub, rep) == ReplaceFrom(text, 1, sub, rep, << >>)

EnDash == "U+2013"

----------------------------------------------------------------------------
(* clause_display_text and highlight_autocompleted.                        *)

\* both department branches of clause_display_text build the same text
clause_display_text(clause, dept) ==
    LET name  == Strip(clause.Name)
        limit == Strip(clause.Limit)
    IN  IF dept = "Liability"
        THEN IF limit # << >> THEN name \o << " ", EnDash, " " >> \o limit ELSE name
        ELSE IF limit # << >> THEN name \o << " ", EnDash, " " >> \o limit ELSE name

HlPunct == { ".", ",", ";", ":", "!", "?" }

SpanOpenBlue == Chars("<span style='color:#6EADFF;'>")

SpanClose == Chars("</span>")

\* singularize(word.strip(".,;:!?").lower())
hl_reduce(word) == singularize(Lower(StripChars(word, HlPunct)))

\* user_words_norm
hl_reference(user_text) ==
    { hl_reduce(t) : t \in Range(Split(clean_text(user_text))) }

\* mutation of hl_item: no word is ever wrapped
hl_item_never_wrapped(word, user_words_norm) == word

\* what one loop iteration appends to out
hl_item(word, user_words_norm) ==
    IF hl_reduce(word) \in user_words_norm
    THEN word
    ELSE SpanOpenBlue \o word \o SpanClose

\* highlight_autocompleted as one expression
highlight_autocompleted(user_text, matched_text) ==
    LET words == Split(matched_text)
        ref   == hl_reference(user_text)
    IN  JoinSpace([ k \in 1..Len(words) |-> hl_item(words[k], ref) ])

\* raw_user and user_words_norm; out = []
HlPrepare ==
    /\ hl_pc = "call"
    /\ hl_user_words_norm' = hl_reference(hl_user_text)
    /\ hl_out' = << >>
    /\ hl_k' = 0
    /\ hl_pc' = "loop"
    /\ UNCHANGED << hl_user_text, hl_matched_text, hl_result,
                    resolverVars, tokVars, rtfVars, ncVars, frVars, wfVars, callVars, bulVars, sgVars, cmpVars >>

\* one iteration of: for word in matched_text.split()
HlWord ==
    /\ hl_pc = "loop"
    /\ hl_k < Len(Split(hl_matched_text))
    /\ hl_out' = Append(hl_out, hl_item(Split(hl_matched_text)[hl_k + 1], hl_user_words_norm))
    /\ hl_k' = hl_k + 1
    /\ UNCHANGED << hl_user_text, hl_matched_text, hl_user_words_norm, hl_result, hl_pc,
                    resolverVars, tokVars, rtfVars, ncVars, frVars, wfVars, callVars, bulVars, sgVars, cmpVars >>

\* return " ".join(out)
HlReturn ==
    /\ hl_pc = "loop"
    /\ hl_k = Len(Split(hl_matched_text))
    /\ hl_result' = JoinSpace(hl_out)
    /\ hl_pc' = "done"
    /\ UNCHANGED << hl_user_text, hl_matched_text, hl_user_words_norm, hl_out, hl_k,
                    resolverVars, tokVars, rtfVars, ncVars, frVars, wfVars, callVars, bulVars, sgVars, cmpVars >>

\* the lines and display texts highlight_autocompleted is called on
HlLines ==
    { << >>,
      Chars("War exclusion"),
      Chars("wars and hostilities"),
      Chars("Fire, flames!"),
      Chars("LM-7 war"),
      Chars("fire (smoke) 100"),
      Chars("Expenses: fire"),
      Chars("  war \t damage "),
      << "w", "a", "r", "U+2019", "s", " ", "f", "i", "r", "e" >>,
      Chars("Fire ") \o << EnDash >> \o Chars(" 100") }

HlDisplayTexts ==
    HlLines \cup { clause_display_text(c, d) : c \in ClauseSet, d \in Departments }

\* a call of highlight_autocompleted(hl_user_text, hl_matched_text)
InitHl ==
    /\ hl_user_text \in HlLines
    /\ hl_matched_text \in HlDisplayTexts
    /\ hl_user_words_norm = { }
    /\ hl_out = << >>
    /\ hl_k = 0
    /\ hl_result = << >>
    /\ hl_pc = "call"
    /\ ResolverIdle /\ TokIdle /\ RtfIdle /\ NcIdle /\ FrIdle /\ WfIdle /\ CallIdle /\ BulIdle /\ SgIdle /\ CmpIdle

NextHl ==
    \/ HlPrepare
    \/ HlWord
    \/ HlReturn

SpecHl == InitHl /\ [][NextHl]_vars

\* what is claimed of the highlighter
ClaimReduced(w) == singularize(Lower(StripChars(w, HlPunct)))

ClaimLineWords(line) == Range(Split(line))

\* the word w of the display text appears in the line, up to the punctuation
\* around it, letter case and singular or plural form
ClaimAppearsIn(w, line) ==
    \E v \in ClaimLineWords(line) : ClaimReduced(v) = ClaimReduced(w)

ClaimReference(line) == { singularize(w) : w \in Range(Split(clean_text(line))) }

\* C11: when every word of the display text also appears in the line (up to
\* punctuation and singular/plural), and in particular when the display text
\* is the line itself, the returned text contains no highlight span.
C11_NoSpanWhenAllWordsAppear ==
    ( /\ hl_pc = "done"
      /\ \A w \in Range(Split(hl_matched_text)) : ClaimAppearsIn(w, hl_user_text) )
    => ~ Contains(hl_result, Chars("<span"))

\* the text without the occurrences of sub, read from left to right
WithoutSub(text, sub) == Replace(text, sub, << >>)

ClaimWrapped(word) == SpanOpenBlue \o word \o SpanClose

\* C12: the returned text is one item per word of the display text, in order,
\* joined by single spaces; an item is the word itself when its reduced form
\* is in the reference set of the line, and the word inside one highlight
\* span otherwise; without the span wrappers it is the words of the display
\* text.
C12_OneItemPerWord ==
    hl_pc = "done" =>
        LET words == Split(hl_matched_text)
            ref   == ClaimReference(hl_user_text)
            items == [ k \in 1..Len(words) |->
                         IF ClaimReduced(words[k]) \in ref
                         THEN words[k] ELSE ClaimWrapped(words[k]) ]
        IN  /\ hl_result = JoinSpace(items)
            /\ WithoutSub(WithoutSub(hl_result, SpanOpenBlue), SpanClose) = JoinSpace(words)

\* a finished call that kept one word and wrapped another
C12_Witness ==
    /\ hl_pc = "done"
    /\ \E j, k \in 1..Len(Split(hl_matched_text)) :
          /\ j < k
          /\ hl_out[j] = Split(hl_matched_text)[j]
          /\ hl_out[k] = ClaimWrapped(Split(hl_matched_text)[k])

----------------------------------------------------------------------------
(* clipboard_utils: _rtf_escape and _html_fragment_to_rtf.                 *)

ToUpper == [ c \in Range(LowerSeq) |-> UpperSeq[CHOOSE i \in DOMAIN LowerSeq : LowerSeq[i] = c] ]

Upper(text) == [ i \in 1..Len(text) |-> IF text[i] \in DOMAIN ToUpper THEN ToUpper[text[i]] ELSE text[i] ]

StartsWith(t, pre) == Len(pre) <= Len(t) /\ SubSeq(t, 1, Len(pre)) = pre

\* index of the first c at or after from, 0 when there is none
FirstAt(txt, from, c) ==
    LET S == { q \in from..Len(txt) : txt[q] = c }
    IN  IF S = { } THEN 0 ELSE CHOOSE q \in S : \A r \in S : q <= r

\* mutation of rtf_escape: braces first, backslashes last
rtf_escape_backslash_last(s) ==
    Replace(Replace(Replace(s, << "{" >>, << "\\", "{" >>), << "}" >>, << "\\", "}" >>),
            << "\\" >>, << "\\", "\\" >>)

\* _rtf_escape
rtf_escape(s) ==
    Replace(Replace(Replace(s, << "\\" >>, << "\\", "\\" >>), << "{" >>, << "\\", "{" >>),
            << "}" >>, << "\\", "}" >>)

\* regex whitespace \s
IsReSpace(c) == c \in { " ", "\t", "\n" }

RECURSIVE SkipSpaces(_, _)
SkipSpaces(txt, j) ==
    IF j <= Len(txt) /\ IsReSpace(txt[j]) THEN SkipSpaces(txt, j + 1) ELSE j

\* (?i)<br\s*/?> at i: the index of its ">", 0 when it does not match
BrEnd(txt, i) ==
    IF ~ LiteralAt(txt, i, Chars("<br")) THEN 0
    ELSE LET j == SkipSpaces(txt, i + 3)
             k == IF j <= Len(txt) /\ txt[j] = "/" THEN j + 1 ELSE j
         IN  IF k <= Len(txt) /\ txt[k] = ">" THEN k ELSE 0

RECURSIVE ReplaceBrFrom(_, _, _)
ReplaceBrFrom(txt, i, acc) ==
    LET S == { k \in i..Len(txt) : BrEnd(txt, k) # 0 }
    IN  IF S = { } THEN acc \o SubSeq(txt, i, Len(txt))
        ELSE LET k == CHOOSE a \in S : \A b \in S : a <= b
             IN  ReplaceBrFrom(txt, BrEnd(txt, k) + 1, acc \o SubSeq(txt, i, k - 1) \o << "\n" >>)

\* txt after the two replacements that precede the scan
rtf_prepared(fragment) ==
    ReplaceBrFrom(Replace(fragment, Chars("&nbsp;"), << " " >>), 1, << >>)

\* first alternative <(/?)span\b([^>]*)> at i: where "span" starts
SpanNameAt(txt, i) == IF i + 1 <= Len(txt) /\ txt[i + 1] = "/" THEN i + 2 ELSE i + 1

\* first alternative at i: the index of its ">", 0 when it does not match
SpanTagEnd(txt, i) ==
    LET j == SpanNameAt(txt, i)
    IN  IF txt[i] = "<" /\ LiteralAt(txt, j, Chars("span")) /\ ~ IsWordAt(txt, j + 4)
        THEN FirstAt(txt, j + 4, ">") ELSE 0

\* second alternative <[^>]+> at i: the index of its ">", 0 when it does not match
AnyTagEnd(txt, i) ==
    LET q == FirstAt(txt, i + 1, ">")
    IN  IF txt[i] = "<" /\ q > i + 1 THEN q ELSE 0

TagEnd(txt, i) == IF SpanTagEnd(txt, i) # 0 THEN SpanTagEnd(txt, i) ELSE AnyTagEnd(txt, i)

\* the match m that re.finditer yields next when the last one ended at pos;
\* start and end are m.start() and m.end()
NextTag(txt, pos) ==
    LET S == { i \in (pos + 1)..Len(txt) : txt[i] = "<" /\ TagEnd(txt, i) # 0 }
    IN  IF S = { } THEN None
        ELSE LET i == CHOOSE a \in S : \A b \in S : a <= b
                 e == TagEnd(txt, i)
             IN  [ start |-> i - 1,
                   end   |-> e,
                   tag   |-> SubSeq(txt, i, e),
                   attrs |-> IF SpanTagEnd(txt, i) # 0
                             THEN SubSeq(txt, SpanNameAt(txt, i) + 4, e - 1)
                             ELSE << >> ]

is_closing_span(tag) == StartsWith(Lower(tag), Chars("</span"))

is_opening_span(tag) == StartsWith(Lower(tag), Chars("<span"))

\* blue and strike of an opening span
span_flags(attrs) ==
    LET style == Replace(attrs, Chars("&quot;"), << "\"" >>)
    IN  [ blue   |-> \/ Contains(Upper(style), Chars("#6EADFF"))
                     \/ Contains(Upper(style), Chars("110,173,255")),
          strike |-> Contains(Lower(style), Chars("line-through")) ]

CtlBlue == Chars("\\cf1 ")

CtlBlueOff == Chars("\\cf0 ")

CtlStrike == Chars("\\strike ")

CtlStrikeOff == Chars("\\strike0 ")

open_controls(flags) ==
    (IF flags.blue THEN << CtlBlue >> ELSE << >>)
        \o (IF flags.strike THEN << CtlStrike >> ELSE << >>)

\* mutation of close_controls: a popped span emits no reset
close_controls_none(top) == << >>

close_controls(top) ==
    (IF top.strike THEN << CtlStrikeOff >> ELSE << >>)
        \o (IF top.blue THEN << CtlBlueOff >> ELSE << >>)

\* txt, out, pos, stack before the loop
RtfPrepare ==
    /\ rtf_pc = "call"
    /\ rtf_txt' = rtf_prepared(rtf_fragment)
    /\ rtf_out' = << >>
    /\ rtf_pos' = 0
    /\ rtf_stack' = << >>
    /\ rtf_pc' = "scan"
    /\ UNCHANGED << rtf_fragment, rtf_result,
                    resolverVars, tokVars, hlVars, ncVars, frVars, wfVars, callVars, bulVars, sgVars, cmpVars >>

\* one iteration of: for m in _re.finditer(...)
RtfTag ==
    /\ rtf_pc = "scan"
    /\ NextTag(rtf_txt, rtf_pos) # None
    /\ LET m     == NextTag(rtf_txt, rtf_pos)
           chunk == SubSeq(rtf_txt, rtf_pos + 1, m.start)
           out1  == IF chunk # << >> THEN Append(rtf_out, rtf_escape(chunk)) ELSE rtf_out
       IN  /\ rtf_pos' = m.end
           /\ IF is_closing_span(m.tag)
              THEN IF rtf_stack # << >>
                   THEN /\ rtf_out' = out1 \o close_controls(rtf_stack[Len(rtf_stack)])
                        /\ rtf_stack' = SubSeq(rtf_stack, 1, Len(rtf_stack) - 1)
                   ELSE /\ rtf_out' = out1
                        /\ rtf_stack' = rtf_stack
              ELSE IF is_opening_span(m.tag)
                   THEN /\ rtf_out' = out1 \o open_controls(span_flags(m.attrs))
                        /\ rtf_stack' = Append(rtf_stack, span_flags(m.attrs))
                   ELSE /\ rtf_out' = out1
                        /\ rtf_stack' = rtf_stack
    /\ UNCHANGED << rtf_fragment, rtf_txt, rtf_result, rtf_pc,
                    resolverVars, tokVars, hlVars, ncVars, frVars, wfVars, callVars, bulVars, sgVars, cmpVars >>

\* the loop is exhausted; the text after the last tag
RtfTail ==
    /\ rtf_pc = "scan"
    /\ NextTag(rtf_txt, rtf_pos) = None
    /\ rtf_out' = IF rtf_pos < Len(rtf_txt)
                  THEN Append(rtf_out, rtf_escape(SubSeq(rtf_txt, rtf_pos + 1, Len(rtf_txt))))
                  ELSE rtf_out
    /\ rtf_pc' = "close"
    /\ UNCHANGED << rtf_fragment, rtf_txt, rtf_pos, rtf_stack, rtf_result,
                    resolverVars, tokVars, hlVars, ncVars, frVars, wfVars, callVars, bulVars, sgVars, cmpVars >>

\* one iteration of: while stack
RtfForceClose ==
    /\ rtf_pc = "close"
    /\ rtf_stack # << >>
    /\ rtf_out' = rtf_out \o close_controls(rtf_stack[Len(rtf_stack)])
    /\ rtf_stack' = SubSeq(rtf_stack, 1, Len(rtf_stack) - 1)
    /\ UNCHANGED << rtf_fragment, rtf_txt, rtf_pos, rtf_result, rtf_pc,
                    resolverVars, tokVars, hlVars, ncVars, frVars, wfVars, callVars, bulVars, sgVars, cmpVars >>

\* return "".join(out)
RtfReturn ==
    /\ rtf_pc = "close"
    /\ rtf_stack = << >>
    /\ rtf_result' = Concat(rtf_out)
    /\ rtf_pc' = "done"
    /\ UNCHANGED << rtf_fragment, rtf_txt, rtf_pos, rtf_stack, rtf_out,
                    resolverVars, tokVars, hlVars, ncVars, frVars, wfVars, callVars, bulVars, sgVars, cmpVars >>

\* the struck-through span of a rejected line (FinalReviewDialog)
SpanOpenStruck == Chars("<span style='color:#6EADFF; text-decoration: line-through;'>")

MaxPieces == 4     \* most pieces a fragment is put together from

RtfPieces ==
    { SpanOpenBlue,
      SpanOpenStruck,
      SpanClose,
      Chars("Foo"),
      Chars(" {B\\r}&nbsp;<BR /><b>"),
      Chars("<spanx>") }

RECURSIVE FragmentsOf(_)
FragmentsOf(n) ==
    IF n = 0 THEN { << >> }
    ELSE FragmentsOf(n - 1) \cup { f \o p : f \in FragmentsOf(n - 1), p \in RtfPieces }

RtfFragments == FragmentsOf(MaxPieces)

\* a call of _html_fragment_to_rtf(rtf_fragment)
InitRtf ==
    /\ rtf_fragment \in RtfFragments
    /\ rtf_txt = << >>
    /\ rtf_pos = 0
    /\ rtf_stack = << >>
    /\ rtf_out = << >>
    /\ rtf_result = << >>
    /\ rtf_pc = "call"
    /\ ResolverIdle /\ TokIdle /\ HlIdle /\ NcIdle /\ FrIdle /\ WfIdle /\ CallIdle /\ BulIdle /\ SgIdle /\ CmpIdle

NextRtf ==
    \/ RtfPrepare
    \/ RtfTag
    \/ RtfTail
    \/ RtfForceClose
    \/ RtfReturn

SpecRtf == InitRtf /\ [][NextRtf]_vars

\* what is claimed of the serializer

\* the output read as RTF: a backslash before \, { or } gives that character,
\* any other backslash starts a control word (letters, digits, one space)
RECURSIVE RtfRead(_, _, _)
RtfRead(s, i, acc) ==
    IF i > Len(s) THEN acc
    ELSE IF s[i] = "\\"
         THEN IF i + 1 <= Len(s) /\ s[i + 1] \in { "\\", "{", "}" }
              THEN RtfRead(s, i + 2, Append(acc, [ kind |-> "char", v |-> << s[i + 1] >> ]))
              ELSE LET S == { j \in (i + 1)..Len(s) : ~ IsAlnum(s[j]) }
                       j == IF S = { } THEN Len(s) + 1 ELSE CHOOSE a \in S : \A b \in S : a <= b
                       k == IF j <= Len(s) /\ s[j] = " " THEN j + 1 ELSE j
                   IN  RtfRead(s, k, Append(acc, [ kind |-> "control", v |-> SubSeq(s, i + 1, j - 1) ]))
         ELSE IF s[i] \in { "{", "}" }
              THEN RtfRead(s, i + 1, Append(acc, [ kind |-> "brace", v |-> << s[i] >> ]))
              ELSE RtfRead(s, i + 1, Append(acc, [ kind |-> "char", v |-> << s[i] >> ]))

ClaimEvents(s) == RtfRead(s, 1, << >>)

ClaimCharEvents(text) == [ i \in 1..Len(text) |-> [ kind |-> "char", v |-> << text[i] >> ] ]

ClaimControl(name) == [ kind |-> "control", v |-> name ]

ClaimIsPlain(text) == \A i \in 1..Len(text) : text[i] \notin { "<", ">", "&" }

\* the fragment from position i on as plain text and highlight spans that are
\* not nested: the events its conversion must give, or Mismatch
SubAt(text, i, sub) ==
    i + Len(sub) - 1 <= Len(text) /\ SubSeq(text, i, i + Len(sub) - 1) = sub

RECURSIVE ClaimPlainAndSpans(_, _, _)
ClaimPlainAndSpans(f, i, acc) ==
    IF i > Len(f) THEN [ ok |-> TRUE, events |-> acc ]
    ELSE IF f[i] \in { ">", "&" } THEN [ ok |-> FALSE, events |-> acc ]
    ELSE IF f[i] # "<"
         THEN ClaimPlainAndSpans(f, i + 1, Append(acc, [ kind |-> "char", v |-> << f[i] >> ]))
    ELSE IF ~ SubAt(f, i, SpanOpenBlue) THEN [ ok |-> FALSE, events |-> acc ]
    ELSE LET k == FirstOccurrence(f, i + Len(SpanOpenBlue), SpanClose)
         IN  IF k = 0 THEN [ ok |-> FALSE, events |-> acc ]
             ELSE LET inner == SubSeq(f, i + Len(SpanOpenBlue), k - 1)
                  IN  IF ~ ClaimIsPlain(inner) THEN [ ok |-> FALSE, events |-> acc ]
                      ELSE ClaimPlainAndSpans(f, k + Len(SpanClose),
                               acc \o << ClaimControl(Chars("cf1")) >> \o ClaimCharEvents(inner)
                                   \o << ClaimControl(Chars("cf0")) >>)

\* C13: for a fragment of plain text and highlight spans that are not nested,
\* the output read as RTF is the text of the fragment in order, with the
\* colour switch right before the first character of each span and the colour
\* reset right after its last character.
C13_SpanControlsAroundText ==
    ( rtf_pc = "done" /\ ClaimPlainAndSpans(rtf_fragment, 1, << >>).ok )
    => ClaimEvents(rtf_result) = ClaimPlainAndSpans(rtf_fragment, 1, << >>).events

\* a converted fragment with text inside a highlight span and text after it
C13_Witness ==
    /\ rtf_pc = "done"
    /\ ClaimPlainAndSpans(rtf_fragment, 1, << >>).ok
    /\ \E i \in 1..Len(ClaimEvents(rtf_result)), j \in 1..Len(ClaimEvents(rtf_result)) :
          /\ i + 1 < j /\ j < Len(ClaimEvents(rtf_result))
          /\ ClaimEvents(rtf_result)[i] = ClaimControl(Chars("cf1"))
          /\ ClaimEvents(rtf_result)[i + 1].kind = "char"
          /\ ClaimEvents(rtf_result)[j] = ClaimControl(Chars("cf0"))
          /\ ClaimEvents(rtf_result)[j + 1].kind = "char"

\* the name of a tag: what follows "<" or "</" up to a space, "/" or ">"
ClaimTagName(tag) ==
    LET a == IF Len(tag) >= 2 /\ tag[2] = "/" THEN 3 ELSE 2
        S == { j \in a..Len(tag) : tag[j] \in { " ", "\t", "\n", "/", ">" } }
        e == IF S = { } THEN Len(tag) + 1 ELSE CHOOSE x \in S : \A y \in S : x <= y
    IN  Lower(SubSeq(tag, a, e - 1))

ClaimIsSpanTag(tag) == ClaimTagName(tag) = Chars("span")

ClaimIsClosingSpan(tag) == ClaimIsSpanTag(tag) /\ tag[2] = "/"

ClaimIsOpeningSpan(tag) == ClaimIsSpanTag(tag) /\ tag[2] # "/"

RtfControls == { CtlBlue, CtlBlueOff, CtlStrike, CtlStrikeOff }

IsRtfControl(item) == item \in RtfControls

ControlsOf(out) == SelectSeq(out, IsRtfControl)

RECURSIVE ClaimResets(_)
ClaimResets(open) ==
    IF open = << >> THEN << >>
    ELSE close_controls(open[Len(open)]) \o ClaimResets(SubSeq(open, 1, Len(open) - 1))

\* the spans open after the tags of txt up to limit, and the controls due for
\* them: an opening span tag opens a span, a closing span tag closes the most
\* recently opened one, any other tag does neither
RECURSIVE ClaimScan(_, _, _, _, _)
ClaimScan(txt, p, limit, open, ctl) ==
    LET m == NextTag(txt, p)
    IN  IF m = None THEN [ open |-> open, ctl |-> ctl ]
        ELSE IF m.end > limit THEN [ open |-> open, ctl |-> ctl ]
        ELSE IF ClaimIsClosingSpan(m.tag)
             THEN IF open = << >> THEN ClaimScan(txt, m.end, limit, open, ctl)
                  ELSE ClaimScan(txt, m.end, limit, SubSeq(open, 1, Len(open) - 1),
                                 ctl \o close_controls(open[Len(open)]))
             ELSE IF ClaimIsOpeningSpan(m.tag)
                  THEN ClaimScan(txt, m.end, limit, Append(open, span_flags(m.attrs)),
                                 ctl \o open_controls(span_flags(m.attrs)))
                  ELSE ClaimScan(txt, m.end, limit, open, ctl)

CountOf(out, item) == Cardinality({ i \in 1..Len(out) : out[i] = item })

\* C14: during the scan the stack holds the open spans, the most recent on top,
\* and the controls emitted are the switches of the opened spans and, for each
\* closing span tag, the resets of the span it closes (none on an empty
\* stack); at return the spans left open have been closed with their resets,
\* the stack is empty and switches and resets are equal in number.
C14_StackDiscipline ==
    /\ rtf_pc = "scan" =>
          LET c == ClaimScan(rtf_txt, 0, rtf_pos, << >>, << >>)
          IN  rtf_stack = c.open /\ ControlsOf(rtf_out) = c.ctl
    /\ rtf_pc = "done" =>
          LET c == ClaimScan(rtf_txt, 0, Len(rtf_txt), << >>, << >>)
          IN  /\ rtf_stack = << >>
              /\ ControlsOf(rtf_out) = c.ctl \o ClaimResets(c.open)
              /\ CountOf(rtf_out, CtlBlue) = CountOf(rtf_out, CtlBlueOff)
              /\ CountOf(rtf_out, CtlStrike) = CountOf(rtf_out, CtlStrikeOff)

\* the part of C14 that speaks of the end of the call only
C14_BalancedAtReturn ==
    rtf_pc = "done" =>
        /\ rtf_stack = << >>
        /\ CountOf(rtf_out, CtlBlue) = CountOf(rtf_out, CtlBlueOff)
        /\ CountOf(rtf_out, CtlStrike) = CountOf(rtf_out, CtlStrikeOff)

\* the text of txt: what lies between its tags
RECURSIVE ClaimTextFrom(_, _)
ClaimTextFrom(txt, p) ==
    LET m == NextTag(txt, p)
    IN  IF m = None THEN SubSeq(txt, p + 1, Len(txt))
        ELSE SubSeq(txt, p + 1, m.start) \o ClaimTextFrom(txt, m.end)

\* C15: read as RTF, the output has no unescaped brace, its only control words
\* are the four the serializer emits, and its characters are the characters of
\* the plain-text runs: each backslash and brace of the text is escaped once.
C15_TextEscapedOnce ==
    rtf_pc = "done" =>
        LET ev == ClaimEvents(rtf_result)
        IN  /\ \A i \in 1..Len(ev) :
                  /\ ev[i].kind # "brace"
                  /\ ev[i].kind = "control" =>
                        ev[i].v \in { Chars("cf1"), Chars("cf0"), Chars("strike"), Chars("strike0") }
            /\ Concat([ i \in 1..Len(SelectSeq(ev, LAMBDA e : e.kind = "char")) |->
                          SelectSeq(ev, LAMBDA e : e.kind = "char")[i].v ])
                  = ClaimTextFrom(rtf_txt, 0)

\* a converted fragment whose text has a backslash and both braces, inside a span
C15_Witness ==
    /\ rtf_pc = "done"
    /\ { "\\", "{", "}" } \subseteq Range(ClaimTextFrom(rtf_txt, 0))
    /\ CountOf(rtf_out, CtlBlue) > 0

\* C16: a step of the scan over a tag that is neither an opening nor a closing
\* span tag emits no control and leaves the stack of open spans as it is.
C16_OtherTagsIgnored ==
    [][ ( /\ rtf_pc = "scan"
          /\ NextTag(rtf_txt, rtf_pos) # None
          /\ ~ ClaimIsSpanTag(NextTag(rtf_txt, rtf_pos).tag) )
        => ( rtf_stack' = rtf_stack /\ ControlsOf(rtf_out') = ControlsOf(rtf_out) ) ]_vars

----------------------------------------------------------------------------
(* clause_engine: normalize_colors_keep_exact.                             *)

IsHex(c) == c \in Digits \cup { "a", "b", "c", "d", "e", "f", "A", "B", "C", "D", "E", "F" }

\* CUSTOM_BLUE_RGB behind "color: "
NcBlueRgb == Chars("color: rgb(110,173,255)")

\* the suffix _fix_style appends
NcSuppress == Chars(" mso-themecolor:none; mso-themeshade:0;")

Min(S) == CHOOSE a \in S : \A b \in S : a <= b

Max(S) == CHOOSE a \in S : \A b \in S : b <= a

\* color\s*:\s* at i: the index behind it, 0 when it does not match
ColorColonEnd(t, i) ==
    IF ~ LiteralAt(t, i, Chars("color")) THEN 0
    ELSE LET a == SkipSpaces(t, i + 5)
         IN  IF a <= Len(t) /\ t[a] = ":" THEN SkipSpaces(t, a + 1) ELSE 0

\* color\s*:\s*#[0-9a-fA-F]{6} at i: the index of its last character, or 0
HexColorEnd(t, i) ==
    LET b == ColorColonEnd(t, i)
    IN  IF b # 0 /\ b + 6 <= Len(t) /\ t[b] = "#" /\ \A k \in 1..6 : IsHex(t[b + k])
        THEN b + 6 ELSE 0

RECURSIVE DigitsEnd(_, _)
DigitsEnd(t, j) == IF j <= Len(t) /\ t[j] \in Digits THEN DigitsEnd(t, j + 1) ELSE j

\* \s*\d+\s* and the character ch from j: the index behind ch, or 0
NumberThen(t, j, ch) ==
    IF j = 0 THEN 0
    ELSE LET c == SkipSpaces(t, j)
             d == DigitsEnd(t, c)
             e == SkipSpaces(t, d)
         IN  IF d > c /\ e <= Len(t) /\ t[e] = ch THEN e + 1 ELSE 0

\* color\s*:\s*rgb\(\s*\d+\s*,\s*\d+\s*,\s*\d+\s*\) at i: index of ")", or 0
RgbColorEnd(t, i) ==
    LET b == ColorColonEnd(t, i)
    IN  IF b = 0 \/ ~ LiteralAt(t, b, Chars("rgb(")) THEN 0
        ELSE LET e == NumberThen(t, NumberThen(t, NumberThen(t, b + 4, ","), ","), ")")
             IN  IF e = 0 THEN 0 ELSE e - 1

RECURSIVE SubHexFrom(_, _, _)
SubHexFrom(t, i, acc) ==
    LET S == { k \in i..Len(t) : HexColorEnd(t, k) # 0 }
    IN  IF S = { } THEN acc \o SubSeq(t, i, Len(t))
        ELSE SubHexFrom(t, HexColorEnd(t, Min(S)) + 1, acc \o SubSeq(t, i, Min(S) - 1) \o NcBlueRgb)

RECURSIVE SubRgbFrom(_, _, _)
SubRgbFrom(t, i, acc) ==
    LET S == { k \in i..Len(t) : RgbColorEnd(t, k) # 0 }
    IN  IF S = { } THEN acc \o SubSeq(t, i, Len(t))
        ELSE SubRgbFrom(t, RgbColorEnd(t, Min(S)) + 1, acc \o SubSeq(t, i, Min(S) - 1) \o NcBlueRgb)

\* str.rstrip()
RStrip(t) ==
    LET keep == { i \in 1..Len(t) : ~ IsReSpace(t[i]) }
    IN  IF keep = { } THEN << >> ELSE SubSeq(t, 1, Max(keep))

\* _fix_style applied to m.group(0)
fix_style(style) ==
    LET recoloured == SubRgbFrom(SubHexFrom(style, 1, << >>), 1, << >>)
    IN  IF ~ Contains(recoloured, Chars("mso-themecolor"))
        THEN (IF ~ EndsWith(RStrip(recoloured), << ";" >>)
              THEN recoloured \o << ";" >> ELSE recoloured) \o NcSuppress
        ELSE recoloured

\* style\s*=\s*q[^q]*q at i for the quote q: the index of the closing quote, or 0
StyleAttrEnd(html, i, q) ==
    IF ~ LiteralAt(html, i, Chars("style")) THEN 0
    ELSE LET a == SkipSpaces(html, i + 5)
         IN  IF ~ (a <= Len(html) /\ html[a] = "=") THEN 0
             ELSE LET b == SkipSpaces(html, a + 1)
                  IN  IF b <= Len(html) /\ html[b] = q THEN FirstAt(html, b + 1, q) ELSE 0

\* re.sub of the style pattern with the quote q by _fix_style
RECURSIVE SubStylesFrom(_, _, _, _)
SubStylesFrom(html, i, q, acc) ==
    LET S == { k \in i..Len(html) : StyleAttrEnd(html, k, q) # 0 }
    IN  IF S = { } THEN acc \o SubSeq(html, i, Len(html))
        ELSE LET k == Min(S)
                 e == StyleAttrEnd(html, k, q)
             IN  SubStylesFrom(html, e + 1, q,
                               acc \o SubSeq(html, i, k - 1) \o fix_style(SubSeq(html, k, e)))

\* (<font[^>]*\bcolor\s*=\s*")[^"]+(") at i: the opening and closing quote
FontColorAt(html, i) ==
    IF ~ LiteralAt(html, i, Chars("<font")) THEN None
    ELSE LET g == IF FirstAt(html, i + 5, ">") = 0 THEN Len(html) + 1
                  ELSE FirstAt(html, i + 5, ">")
             QuoteAt(p) == LET a == SkipSpaces(html, p + 5)
                           IN  IF a <= Len(html) /\ html[a] = "=" THEN SkipSpaces(html, a + 1) ELSE 0
             P == { p \in (i + 5)..g :
                      /\ BoundaryAt(html, p)
                      /\ LiteralAt(html, p, Chars("color"))
                      /\ QuoteAt(p) # 0
                      /\ QuoteAt(p) <= Len(html)
                      /\ html[QuoteAt(p)] = "\""
                      /\ FirstAt(html, QuoteAt(p) + 1, "\"") > QuoteAt(p) + 1 }
         IN  IF P = { } THEN None
             ELSE [ open |-> QuoteAt(Max(P)), close |-> FirstAt(html, QuoteAt(Max(P)) + 1, "\"") ]

RECURSIVE SubFontFrom(_, _, _)
SubFontFrom(html, i, acc) ==
    LET S == { k \in i..Len(html) : FontColorAt(html, k) # None }
    IN  IF S = { } THEN acc \o SubSeq(html, i, Len(html))
        ELSE LET m == FontColorAt(html, Min(S))
             IN  SubFontFrom(html, m.close + 1,
                             acc \o SubSeq(html, i, m.open) \o Chars("#6EADFF") \o << "\"" >>)

\* first re.sub: style attributes in double quotes
NcDouble ==
    /\ nc_pc = "call"
    /\ nc_html' = SubStylesFrom(nc_input, 1, "\"", << >>)
    /\ nc_pc' = "double"
    /\ UNCHANGED << nc_input, resolverVars, tokVars, hlVars, rtfVars, frVars, wfVars, callVars, bulVars, sgVars, cmpVars >>

\* second re.sub: style attributes in single quotes
NcSingle ==
    /\ nc_pc = "double"
    /\ nc_html' = SubStylesFrom(nc_html, 1, "'", << >>)
    /\ nc_pc' = "single"
    /\ UNCHANGED << nc_input, resolverVars, tokVars, hlVars, rtfVars, frVars, wfVars, callVars, bulVars, sgVars, cmpVars >>

\* third re.sub: the color attribute of font tags; return html
NcFont ==
    /\ nc_pc = "single"
    /\ nc_html' = SubFontFrom(nc_html, 1, << >>)
    /\ nc_pc' = "done"
    /\ UNCHANGED << nc_input, resolverVars, tokVars, hlVars, rtfVars, frVars, wfVars, callVars, bulVars, sgVars, cmpVars >>

MaxParts == 2      \* most pieces an HTML text given to the normaliser is put together from

NcPieces ==
    { Chars("<span style=\"color:#6EADFF\">x</span>"),
      Chars("<span style='color:#6eadff; text-decoration: line-through;'>y</span>"),
      Chars("<p STYLE = \"margin:0; Color : RGB( 1 , 22,3 ) ;  \">"),
      Chars("<p style=\"color: rgb(110,173,255); mso-themecolor:none; mso-themeshade:0;\">"),
      Chars("<font face=\"Arial\" color=\"red\">z</font>"),
      Chars("<b style=''>w</b> color:#12345 ") }

RECURSIVE HtmlTextsOf(_)
HtmlTextsOf(n) ==
    IF n = 0 THEN { << >> }
    ELSE HtmlTextsOf(n - 1) \cup { f \o p : f \in HtmlTextsOf(n - 1), p \in NcPieces }

\* a call of normalize_colors_keep_exact(nc_input)
InitNc ==
    /\ nc_input \in HtmlTextsOf(MaxParts)
    /\ nc_html = << >>
    /\ nc_pc = "call"
    /\ ResolverIdle /\ TokIdle /\ HlIdle /\ RtfIdle /\ FrIdle /\ WfIdle /\ CallIdle /\ BulIdle /\ SgIdle /\ CmpIdle

NextNc ==
    \/ NcDouble
    \/ NcSingle
    \/ NcFont

SpecNc == InitNc /\ [][NextNc]_vars

\* the values of the style attributes of html, in order: for each attribute
\* the text between its quotes
ClaimStyleValues(html) ==
    LET EndOf(k) == IF StyleAttrEnd(html, k, "\"") # 0 THEN StyleAttrEnd(html, k, "\"")
                    ELSE StyleAttrEnd(html, k, "'")
        S == { k \in 1..Len(html) : EndOf(k) # 0 }
        Nth(n) == CHOOSE k \in S : Cardinality({ j \in S : j <= k }) = n
        ValueOf(k) == LET q == html[EndOf(k)]
                      IN  SubSeq(html, FirstAt(html, k, q) + 1, EndOf(k) - 1)
    IN  [ n \in 1..Cardinality(S) |-> ValueOf(Nth(n)) ]

\* C17: every style attribute of the input whose value lacks the suppression
\* properties has them inside its value (between its quotes) in the output.
C17_SuppressionInsideStyleValue ==
    nc_pc = "done" =>
        LET before == ClaimStyleValues(nc_input)
            after  == ClaimStyleValues(nc_html)
        IN  /\ Len(after) = Len(before)
            /\ \A n \in 1..Len(before) :
                  ~ Contains(before[n], Chars("mso-themecolor")) =>
                      /\ Contains(after[n], Chars("mso-themecolor:none;"))
                      /\ Contains(after[n], Chars("mso-themeshade:0;"))

----------------------------------------------------------------------------
(* best_unique_matches as one expression, and FinalReviewDialog.__init__.  *)

\* the first loop of best_unique_matches from position i on
RECURSIVE group_keys(_, _, _, _)
group_keys(results, dept, i, best) ==
    IF i >= Len(results) THEN best
    ELSE LET r   == results[i + 1]
             key == uniqueness_key(r.m, dept)
         IN  group_keys(results, dept, i + 1,
                        IF r.m = None THEN best
                        ELSE IF takes_key(best, key, r.score)
                             THEN put_key(best, key, i, r.score)
                             ELSE best)

best_unique_matches(lines, cls, dept) ==
    LET results == [ i \in 1..Len(lines) |-> match_clause_with_score(lines[i], cls) ] \o << >>
        best    == group_keys(results, dept, 0, << >>)
    IN  [ i \in 1..Len(lines) |->
            IF results[i].m = None THEN None
            ELSE final_entry(results[i].m, i - 1, best[uniqueness_key(results[i].m, dept)].idx) ]

\* mutation of fr_item: the keep set is consulted before the match
fr_item_keep_first(uline, match, i, dept, override_set, keep_set) ==
    IF i \in keep_set
    THEN [ name |-> uline, html |-> uline, desc |-> << >>,
           kept |-> TRUE, overridden |-> FALSE, rejected |-> FALSE ]
    ELSE IF match # None
         THEN [ name |-> match.Name,
                html |-> highlight_autocompleted(uline, clause_display_text(match, dept)),
                desc |-> << >>, kept |-> FALSE, overridden |-> FALSE, rejected |-> FALSE ]
         ELSE [ name |-> uline, html |-> SpanOpenStruck \o uline \o SpanClose, desc |-> << >>,
                kept |-> FALSE, overridden |-> FALSE, rejected |-> TRUE ]

\* the record one loop iteration appends to all_items; a clause of the model
\* has no "Description", which reads back as "" through dict.get
fr_item(uline, match, i, dept, override_set, keep_set) ==
    IF match # None
    THEN IF i \in override_set
         THEN [ name |-> match.Name, html |-> uline, desc |-> << >>,
                kept |-> FALSE, overridden |-> TRUE, rejected |-> FALSE ]
         ELSE [ name |-> match.Name,
                html |-> highlight_autocompleted(uline, clause_display_text(match, dept)),
                desc |-> << >>, kept |-> FALSE, overridden |-> FALSE, rejected |-> FALSE ]
    ELSE IF i \in keep_set
         THEN [ name |-> uline, html |-> uline, desc |-> << >>,
                kept |-> TRUE, overridden |-> FALSE, rejected |-> FALSE ]
         ELSE [ name |-> uline, html |-> SpanOpenStruck \o uline \o SpanClose, desc |-> << >>,
                kept |-> FALSE, overridden |-> FALSE, rejected |-> TRUE ]

\* self.override_set, self.keep_set are copies of the arguments; all_items = []
FrBegin ==
    /\ fr_pc = "call"
    /\ fr_all_items' = << >>
    /\ fr_idx' = 0
    /\ fr_pc' = "loop"
    /\ UNCHANGED << fr_department, fr_user_lines, fr_full_matches, fr_override_set, fr_keep_set,
                    resolverVars, tokVars, hlVars, rtfVars, ncVars, wfVars, callVars, bulVars, sgVars, cmpVars >>

\* one iteration of: for idx, match in enumerate(full_matches)
FrItem ==
    /\ fr_pc = "loop"
    /\ fr_idx < Len(fr_full_matches)
    /\ fr_all_items' = Append(fr_all_items,
                              fr_item(fr_user_lines[fr_idx + 1], fr_full_matches[fr_idx + 1], fr_idx,
                                      fr_department, fr_override_set, fr_keep_set))
    /\ fr_idx' = fr_idx + 1
    /\ UNCHANGED << fr_department, fr_user_lines, fr_full_matches, fr_override_set, fr_keep_set,
                    fr_pc, resolverVars, tokVars, hlVars, rtfVars, ncVars, wfVars, callVars, bulVars, sgVars, cmpVars >>

\* self.all_items_sorted = all_items
FrDone ==
    /\ fr_pc = "loop"
    /\ fr_idx = Len(fr_full_matches)
    /\ fr_pc' = "done"
    /\ UNCHANGED << fr_department, fr_user_lines, fr_full_matches, fr_override_set, fr_keep_set,
                    fr_all_items, fr_idx, resolverVars, tokVars, hlVars, rtfVars, ncVars, wfVars, callVars, bulVars, sgVars, cmpVars >>

MaxReviewLines == 2    \* most lines shown in a final review

\* "fire smoke", "War and hostilities excluded", "Unrelated remark"
ReviewLines ==
    { Chars("fire smoke"), Chars("War and hostilities excluded"), Chars("Unrelated remark") }

ReviewLineLists == UNION { [ 1..n -> ReviewLines ] : n \in 0..MaxReviewLines }

ReviewLibrary == << ClauseWarExclusion, ClauseFire100 >>

\* FinalReviewDialog(fr_department, .., fr_user_lines, fr_full_matches,
\* override_set, keep_set) on the matches of the lines against the library
InitFr ==
    /\ fr_department \in Departments
    /\ fr_user_lines \in ReviewLineLists
    /\ fr_full_matches = best_unique_matches(fr_user_lines, ReviewLibrary, fr_department)
    /\ fr_override_set \in SUBSET (0..(Len(fr_user_lines) - 1))
    /\ fr_keep_set \in SUBSET (0..(Len(fr_user_lines) - 1))
    /\ fr_all_items = << >>
    /\ fr_idx = 0
    /\ fr_pc = "call"
    /\ ResolverIdle /\ TokIdle /\ HlIdle /\ RtfIdle /\ NcIdle /\ WfIdle /\ CallIdle /\ BulIdle /\ SgIdle /\ CmpIdle

NextFr ==
    \/ FrBegin
    \/ FrItem
    \/ FrDone

SpecFr == InitFr /\ [][NextFr]_vars

\* the four states of a line in the final review
ClaimState(item) ==
    IF item.overridden /\ ~ item.kept /\ ~ item.rejected THEN "matched-override"
    ELSE IF item.kept /\ ~ item.overridden /\ ~ item.rejected THEN "unmatched-kept"
    ELSE IF item.rejected /\ ~ item.kept /\ ~ item.overridden THEN "unmatched-rejected"
    ELSE IF ~ item.rejected /\ ~ item.kept /\ ~ item.overridden THEN "matched-autocomplete"
    ELSE "none"

C19_WitnessOverrideKept ==
    /\ fr_pc = "done"
    /\ \E a, b \in 1..Len(fr_user_lines) :
          /\ ClaimState(fr_all_items[a]) = "matched-override"
          /\ ClaimState(fr_all_items[b]) = "unmatched-kept"

----------------------------------------------------------------------------
(* The clause-check workflow: the session loop of app.main (wf_kind =      *)
(* "main") and clause_checker.run (wf_kind = "run"), with the dialogs they *)
(* open.  wf_text is text, and prev_text once text has been submitted.     *)
(*                                                                         *)
(* The library file is [kind |-> "missing"], "unreadable" (open fails),    *)
(* "invalid" (not JSON) or "json" with the value json.load returns: an     *)
(* array of items, an object, or null.  An item of an array is a clause    *)
(* record or a JSON string, written [str |-> ..].                          *)

EmptyArray == [ type |-> "array", items |-> << >> ]

\* str.splitlines(), for the line break "\n"
RECURSIVE SplitLinesFrom(_, _, _)
SplitLinesFrom(text, i, acc) ==
    IF i > Len(text) THEN acc
    ELSE LET k == FirstAt(text, i, "\n")
         IN  IF k = 0 THEN Append(acc, SubSeq(text, i, Len(text)))
             ELSE SplitLinesFrom(text, k + 1, Append(acc, SubSeq(text, i, k - 1)))

Bullet == "U+2022"

\* lines = [ln.strip("•–- ").strip() for ln in text.splitlines() if ln.strip()]
text_lines(text) ==
    LET raw  == SplitLinesFrom(text, 1, << >>)
        IsFilled(ln) == Strip(ln) # << >>
        kept == SelectSeq(raw, IsFilled)
    IN  [ i \in 1..Len(kept) |-> Strip(StripChars(kept[i], { Bullet, EnDash, "-", " " })) ] \o << >>

\* mutation of load_clauses: the file is not read
load_clauses_never(file) == EmptyArray

\* clauses after the try/except around json.load
load_clauses(file) == IF file.kind = "json" THEN file.value ELSE EmptyArray

\* match_clause_with_score gets as far as its loop over the clauses
reaches_scan(line) ==
    /\ ~ is_lm7_line(line)
    /\ ~ is_temporary_line(line)
    /\ ~ is_payment_warranty_line(line)
    /\ token_set(line, COMMON_STOPWORDS) # { }

\* the loop "for clause in clauses" and clause.get work on the value: it is a
\* list and none of its items is a string, which has no get
scans_cleanly(value) ==
    /\ value.type = "array"
    /\ \A i \in 1..Len(value.items) : "str" \notin DOMAIN value.items[i]

\* best_unique_matches(lines, value, dept) raises
matching_raises(lines, value) ==
    ~ scans_cleanly(value) /\ \E i \in 1..Len(lines) : reaches_scan(lines[i])

\* mutation of initial_keep_set: every line starts kept
initial_keep_set_all(kind, lines) == 0..(Len(lines) - 1)

\* keep_set before the review cycle: app.main assigns it twice, the LM7
\* indices (line 102) and then set() (line 107)
initial_keep_set(kind, lines) ==
    IF kind = "main" THEN { }
    ELSE { i \in 0..(Len(lines) - 1) : is_lm7_line(lines[i + 1]) }

\* mutation of override_checked: a re-opened Comparison starts with no
\* override button checked
override_checked_none(matches, override_set) == { }

\* ComparisonDialog.__init__: the override buttons that start checked
override_checked(matches, override_set) ==
    { i \in 0..(Len(matches) - 1) : matches[i + 1] # None /\ i \in override_set }

\* ComparisonDialog.__init__: the keep buttons that start checked
keep_checked(matches, keep_set) ==
    { i \in 0..(Len(matches) - 1) : matches[i + 1] = None /\ i \in keep_set }

\* "• fire smoke\n- LM-7 war\n\nUnrelated remark"; two lines for one clause;
\* the empty text; lines that never reach the scan
WfTexts ==
    { << Bullet >> \o Chars(" fire smoke\n- LM-7 war\n\nUnrelated remark"),
      Chars("War and hostilities excluded\nwar exclusion"),
      << >>,
      Chars("LM7\n  \n") \o << EnDash >> \o Chars(" the policy 30") }

\* the library file: absent, unopenable, not JSON, or JSON holding the
\* library, a list with a string item, a non-empty object such as
\* {"clauses": [...]}, or null
WfFiles ==
    { [ kind |-> "missing" ],
      [ kind |-> "unreadable" ],
      [ kind |-> "invalid" ],
      [ kind |-> "json", value |-> [ type |-> "array", items |-> ReviewLibrary ] ],
      [ kind |-> "json", value |-> [ type |-> "array", items |-> << [ str |-> Chars("War") ] >> ] ],
      [ kind |-> "json", value |-> [ type |-> "object" ] ],
      [ kind |-> "json", value |-> [ type |-> "null" ] ] }

wfFrame == << resolverVars, tokVars, hlVars, rtfVars, ncVars, frVars, callVars, bulVars, sgVars, cmpVars >>

\* the file on disk is replaced, removed or damaged by something else; it is
\* looked at only when a reinsurer is selected and when text is submitted
EnvFile ==
    /\ wf_pc \in { "select", "input" }
    /\ wf_file' \in WfFiles \ { wf_file }
    /\ UNCHANGED << wf_kind, wf_department, wf_text, wf_lines, wf_clauses, wf_matches,
                    wf_override_set, wf_keep_set, wf_pc, dlg_override_checked,
                    dlg_keep_checked, dlg_override_set, dlg_keep_set, wfFrame >>

\* a reinsurer is selected and its data file exists: prev_text = ""
WfSelect ==
    /\ wf_pc = "select"
    /\ wf_file.kind # "missing"
    /\ wf_text' = << >>
    /\ wf_pc' = "input"
    /\ UNCHANGED << wf_kind, wf_department, wf_file, wf_lines, wf_clauses, wf_matches,
                    wf_override_set, wf_keep_set, dlg_override_checked,
                    dlg_keep_checked, dlg_override_set, dlg_keep_set, wfFrame >>

\* a reinsurer is selected and its data file is not there: QMessageBox.critical
WfSelectNotFound ==
    /\ wf_pc = "select"
    /\ wf_file.kind = "missing"
    /\ wf_pc' = "notfound"
    /\ UNCHANGED << wf_kind, wf_department, wf_file, wf_text, wf_lines, wf_clauses, wf_matches,
                    wf_override_set, wf_keep_set, dlg_override_checked,
                    dlg_keep_checked, dlg_override_set, dlg_keep_set, wfFrame >>

\* the message box is dismissed: continue with the reinsurer selection
WfNotFoundDismissed ==
    /\ wf_pc = "notfound"
    /\ wf_pc' = "select"
    /\ UNCHANGED << wf_kind, wf_department, wf_file, wf_text, wf_lines, wf_clauses, wf_matches,
                    wf_override_set, wf_keep_set, dlg_override_checked,
                    dlg_keep_checked, dlg_override_set, dlg_keep_set, wfFrame >>

\* Back in the input dialog: inp.exec() is false
WfInputBack ==
    /\ wf_pc = "input"
    /\ wf_pc' = "select"
    /\ UNCHANGED << wf_kind, wf_department, wf_file, wf_text, wf_lines, wf_clauses, wf_matches,
                    wf_override_set, wf_keep_set, dlg_override_checked,
                    dlg_keep_checked, dlg_override_set, dlg_keep_set, wfFrame >>

\* Analyze in the input dialog: lines, clauses, matches, the two sets, and the
\* ComparisonDialog that opens; or the exception best_unique_matches raises
WfSubmit ==
    /\ wf_pc = "input"
    /\ \E text \in WfTexts :
          LET lines == text_lines(text)
              value == load_clauses(wf_file)
          IN  /\ wf_text' = text
              /\ wf_lines' = lines
              /\ wf_clauses' = value
              /\ IF matching_raises(lines, value)
                 THEN /\ wf_pc' = "raised"
                      /\ UNCHANGED << wf_matches, wf_override_set, wf_keep_set,
                                      dlg_override_checked, dlg_keep_checked,
                                      dlg_override_set, dlg_keep_set >>
                 ELSE LET matches == best_unique_matches(lines,
                                         IF scans_cleanly(value) THEN value.items ELSE << >>,
                                         wf_department)
                          keep    == initial_keep_set(wf_kind, lines)
                      IN  /\ wf_matches' = matches
                          /\ wf_override_set' = { }
                          /\ wf_keep_set' = keep
                          /\ dlg_override_set' = { }
                          /\ dlg_keep_set' = keep
                          /\ dlg_override_checked' = override_checked(matches, { })
                          /\ dlg_keep_checked' = keep_checked(matches, keep)
                          /\ wf_pc' = "comparison"
    /\ UNCHANGED << wf_kind, wf_department, wf_file, wfFrame >>

\* the user clicks the override button of a matched row
WfToggleOverride ==
    /\ wf_pc = "comparison"
    /\ \E i \in 0..(Len(wf_matches) - 1) :
          /\ wf_matches[i + 1] # None
          /\ dlg_override_checked' = IF i \in dlg_override_checked
                                     THEN dlg_override_checked \ { i }
                                     ELSE dlg_override_checked \cup { i }
    /\ UNCHANGED << wf_kind, wf_department, wf_file, wf_text, wf_lines, wf_clauses, wf_matches,
                    wf_override_set, wf_keep_set, wf_pc, dlg_keep_checked,
                    dlg_override_set, dlg_keep_set, wfFrame >>

\* the user clicks the keep button of an unmatched row
WfToggleKeep ==
    /\ wf_pc = "comparison"
    /\ \E i \in 0..(Len(wf_matches) - 1) :
          /\ wf_matches[i + 1] = None
          /\ dlg_keep_checked' = IF i \in dlg_keep_checked
                                 THEN dlg_keep_checked \ { i }
                                 ELSE dlg_keep_checked \cup { i }
    /\ UNCHANGED << wf_kind, wf_department, wf_file, wf_text, wf_lines, wf_clauses, wf_matches,
                    wf_override_set, wf_keep_set, wf_pc, dlg_override_checked,
                    dlg_override_set, dlg_keep_set, wfFrame >>

\* Next: go_next captures the choices, done(3); the sets are read back and the
\* FinalReviewDialog opens on copies of them
WfComparisonNext ==
    /\ wf_pc = "comparison"
    /\ wf_override_set' = dlg_override_checked
    /\ wf_keep_set' = dlg_keep_checked
    /\ dlg_override_set' = dlg_override_checked
    /\ dlg_keep_set' = dlg_keep_checked
    /\ dlg_override_checked' = { }
    /\ dlg_keep_checked' = { }
    /\ wf_pc' = "review"
    /\ UNCHANGED << wf_kind, wf_department, wf_file, wf_text, wf_lines, wf_clauses, wf_matches,
                    wfFrame >>

\* Back: go_back captures the choices, done(2); the sets are read back and the
\* input dialog opens with prev_text = text
WfComparisonBack ==
    /\ wf_pc = "comparison"
    /\ wf_override_set' = dlg_override_checked
    /\ wf_keep_set' = dlg_keep_checked
    /\ dlg_override_set' = { }
    /\ dlg_keep_set' = { }
    /\ dlg_override_checked' = { }
    /\ dlg_keep_checked' = { }
    /\ wf_pc' = "input"
    /\ UNCHANGED << wf_kind, wf_department, wf_file, wf_text, wf_lines, wf_clauses, wf_matches,
                    wfFrame >>

\* the window is closed: nothing is captured, the sets read back are the
\* dialog's copies of the initial sets; back to the reinsurer selection
WfComparisonClosed ==
    /\ wf_pc = "comparison"
    /\ wf_override_set' = dlg_override_set
    /\ wf_keep_set' = dlg_keep_set
    /\ dlg_override_set' = { }
    /\ dlg_keep_set' = { }
    /\ dlg_override_checked' = { }
    /\ dlg_keep_checked' = { }
    /\ wf_pc' = "select"
    /\ UNCHANGED << wf_kind, wf_department, wf_file, wf_text, wf_lines, wf_clauses, wf_matches,
                    wfFrame >>

\* Back in the final review: done(2); app.main reads the sets back from the
\* dialog, run keeps its own; the ComparisonDialog opens on them
WfReviewBack ==
    /\ wf_pc = "review"
    /\ LET override_set == IF wf_kind = "main" THEN dlg_override_set ELSE wf_override_set
           keep_set     == IF wf_kind = "main" THEN dlg_keep_set ELSE wf_keep_set
       IN  /\ wf_override_set' = override_set
           /\ wf_keep_set' = keep_set
           /\ dlg_override_set' = override_set
           /\ dlg_keep_set' = keep_set
           /\ dlg_override_checked' = override_checked(wf_matches, override_set)
           /\ dlg_keep_checked' = keep_checked(wf_matches, keep_set)
    /\ wf_pc' = "comparison"
    /\ UNCHANGED << wf_kind, wf_department, wf_file, wf_text, wf_lines, wf_clauses, wf_matches,
                    wfFrame >>

\* the final review is closed: back to the reinsurer selection
WfReviewClosed ==
    /\ wf_pc = "review"
    /\ wf_override_set' = IF wf_kind = "main" THEN dlg_override_set ELSE wf_override_set
    /\ wf_keep_set' = IF wf_kind = "main" THEN dlg_keep_set ELSE wf_keep_set
    /\ dlg_override_set' = { }
    /\ dlg_keep_set' = { }
    /\ wf_pc' = "select"
    /\ UNCHANGED << wf_kind, wf_department, wf_file, wf_text, wf_lines, wf_clauses, wf_matches,
                    dlg_override_checked, dlg_keep_checked, wfFrame >>

\* Logout (app.main) or back to the dashboard (run) from the selection
WfLeave ==
    /\ wf_pc = "select"
    /\ wf_pc' = "left"
    /\ UNCHANGED << wf_kind, wf_department, wf_file, wf_text, wf_lines, wf_clauses, wf_matches,
                    wf_override_set, wf_keep_set, dlg_override_checked,
                    dlg_keep_checked, dlg_override_set, dlg_keep_set, wfFrame >>

\* the session loop is entered: the reinsurer selection is open
InitWf ==
    /\ wf_kind \in { "main", "run" }
    /\ wf_department \in Departments
    /\ wf_file \in WfFiles
    /\ wf_text = << >>
    /\ wf_lines = << >>
    /\ wf_clauses = EmptyArray
    /\ wf_matches = << >>
    /\ wf_override_set = { }
    /\ wf_keep_set = { }
    /\ wf_pc = "select"
    /\ dlg_override_checked = { }
    /\ dlg_keep_checked = { }
    /\ dlg_override_set = { }
    /\ dlg_keep_set = { }
    /\ ResolverIdle /\ TokIdle /\ HlIdle /\ RtfIdle /\ NcIdle /\ FrIdle /\ CallIdle /\ BulIdle /\ SgIdle /\ CmpIdle

NextWf ==
    \/ EnvFile
    \/ WfSelect
    \/ WfSelectNotFound
    \/ WfNotFoundDismissed
    \/ WfInputBack
    \/ WfSubmit
    \/ WfToggleOverride
    \/ WfToggleKeep
    \/ WfComparisonNext
    \/ WfComparisonBack
    \/ WfComparisonClosed
    \/ WfReviewBack
    \/ WfReviewClosed
    \/ WfLeave

SpecWf == InitWf /\ [][NextWf]_vars

\* the library source holds a sequence of well-formed clause records
ClaimUsable(file) ==
    /\ file.kind = "json"
    /\ file.value.type = "array"
    /\ \A i \in 1..Len(file.value.items) :
          DOMAIN file.value.items[i] = { "Name", "Keywords", "Limit" }

ClaimLibraryOf(file) == IF ClaimUsable(file) THEN file.value.items ELSE << >>

\* the non-blank lines of a text, bullets, dashes and blanks stripped
ClaimLines(text) ==
    LET kept == SelectSeq(SplitLinesFrom(text, 1, << >>), LAMBDA ln : Strip(ln) # << >>)
    IN  [ i \in 1..Len(kept) |->
            Strip(StripChars(kept[i], { Bullet, EnDash, "-", " " })) ] \o << >>

\* text is being submitted from the input dialog
ClaimSubmitting == wf_pc = "input" /\ wf_pc' \notin { "input", "select" }

\* C18: when text is submitted while the library source is missing, unreadable,
\* not parseable or not a sequence of well-formed clause records, no exception
\* escapes and the Comparison opens with no match for every line.
C18_UnusableLibraryIsEmpty ==
    [][ ( ClaimSubmitting /\ ~ ClaimUsable(wf_file) )
        => ( /\ wf_pc' = "comparison"
             /\ wf_matches' = [ i \in 1..Len(wf_lines') |-> None ] ) ]_vars

\* C20: a submission computes the matches from the submitted text and from the
\* library as it is on disk at that moment, and starts the override and keep
\* sets and the check marks of the Comparison from their initial values,
\* whatever was selected before.
C20_SubmissionStartsAfresh ==
    [][ ( wf_pc = "input" /\ wf_pc' = "comparison" )
        => \A lines \in { ClaimLines(wf_text') } :
           \A lm7 \in { { i \in 0..(Len(lines) - 1) : is_lm7_line(lines[i + 1]) } } :
               /\ wf_lines' = lines
               /\ wf_matches' = best_unique_matches(lines, ClaimLibraryOf(wf_file), wf_department)
               /\ wf_override_set' = { }
               /\ wf_keep_set' = (IF wf_kind = "main" THEN { } ELSE lm7)
               /\ dlg_override_checked' = { }
               /\ dlg_keep_checked' = wf_keep_set' ]_vars

\* the input dialog is open again after a Comparison in which an override and
\* a keep were selected, and the library on disk is not the one read before
C20_Witness ==
    /\ wf_pc = "input"
    /\ wf_override_set # { }
    /\ wf_keep_set # { }
    /\ load_clauses(wf_file) # wf_clauses

\* a Comparison opened by a submission made after earlier selections: the
\* sets are at their initial values although lines are matched and unmatched
C20_WitnessAfresh ==
    /\ wf_pc = "comparison"
    /\ wf_override_set = { }
    /\ \E i, j \in 1..Len(wf_matches) : wf_matches[i] # None /\ wf_matches[j] = None

----------------------------------------------------------------------------
(* Repeated calls of best_unique_matches by one caller.                    *)

MaxCalls == 3      \* most calls the caller makes

\* (lines, library, department) of the calls: "Unrelated remark", "war" and
\* "War and hostilities excluded" against the same library in both
\* departments, two lines for the fire clauses, no lines, no library
CallInputs ==
    { [ lines |-> << Chars("Unrelated remark"), Chars("war") >>,
        cls |-> ReviewLibrary, dept |-> "Liability" ],
      [ lines |-> << Chars("War and hostilities excluded") >>,
        cls |-> ReviewLibrary, dept |-> "Liability" ],
      [ lines |-> << Chars("Unrelated remark"), Chars("war") >>,
        cls |-> ReviewLibrary, dept |-> "Property / Special Risks" ],
      [ lines |-> << Chars("fire smoke"), Chars("fire") >>,
        cls |-> << ClauseFire100, ClauseFire200 >>, dept |-> "Property / Special Risks" ],
      [ lines |-> << >>, cls |-> ReviewLibrary, dept |-> "Liability" ],
      [ lines |-> << Chars("War and hostilities excluded") >>,
        cls |-> << >>, dept |-> "Liability" ] }

callFrame == << tokVars, hlVars, rtfVars, ncVars, frVars, wfVars, bulVars, sgVars, cmpVars >>

\* matches = best_unique_matches(lines, clauses, department): the list and the
\* library are passed by reference; the callee's locals are not bound yet
\* (what an earlier call left in them is what the model shows)
CallEnter ==
    /\ pc = "idle"
    /\ Len(call_log) < MaxCalls
    /\ \E args \in CallInputs :
          /\ call_args' = args
          /\ user_lines' = args.lines
          /\ clauses' = args.cls
          /\ department' = args.dept
    /\ pc' = "call"
    /\ UNCHANGED << line_results, best_for_key, final, idx, call_log, callFrame >>

\* the call returns final; the caller still holds its list and its library
CallReturn ==
    /\ pc = "done"
    /\ call_log' = Append(call_log, [ args |-> call_args, lines |-> user_lines,
                                      cls |-> clauses, out |-> final ])
    /\ pc' = "idle"
    /\ UNCHANGED << user_lines, clauses, department, line_results, best_for_key, final,
                    idx, call_args, callFrame >>

InitCalls ==
    /\ ResolverIdle
    /\ TokIdle /\ HlIdle /\ RtfIdle /\ NcIdle /\ FrIdle /\ WfIdle /\ CallIdle /\ BulIdle /\ SgIdle /\ CmpIdle

NextCalls ==
    \/ CallEnter
    \/ ScoreLines
    \/ GroupStep
    \/ GroupDone
    \/ BuildStep
    \/ BuildDone
    \/ CallReturn

SpecCalls == InitCalls /\ [][NextCalls]_vars

\* C21: while a call of best_unique_matches runs and when it has returned, the
\* line list and the library are as they were passed, and any two calls made
\* with equal (lines, library, department) returned equal results, whatever
\* calls were made in between.
C21_CallsIndependent ==
    /\ pc # "idle" => ( user_lines = call_args.lines /\ clauses = call_args.cls )
    /\ \A k \in 1..Len(call_log) :
          /\ call_log[k].lines = call_log[k].args.lines
          /\ call_log[k].cls = call_log[k].args.cls
    /\ \A j, k \in 1..Len(call_log) :
          call_log[j].args = call_log[k].args => call_log[j].out = call_log[k].out

\* three calls: the first and the third with the same arguments and a matched
\* line, the second with other arguments and a match for the same clause at
\* another position
C21_Witness ==
    /\ Len(call_log) = 3
    /\ call_log[1].args = call_log[3].args
    /\ call_log[2].args # call_log[1].args
    /\ \E i \in 1..Len(call_log[1].out), j \in 1..Len(call_log[2].out) :
          /\ i # j
          /\ call_log[1].out[i] # None
          /\ call_log[2].out[j] = call_log[1].out[i]

----------------------------------------------------------------------------
(* build_rtf_bullets_from_items (nervyra/clipboard_utils).                  *)

\* the printable ASCII characters, U+0020 to U+007E, in code point order (the
\* grave accent is written "U+0060")
AsciiPrintable ==
    Chars(" !\"#$%&'()*+,-./0123456789:;<=>?@ABCDEFGHIJKLMNOPQRSTUVWXYZ[\\]^_")
        \o << "U+0060" >> \o Chars("abcdefghijklmnopqrstuvwxyz{|}~")

NamedCodePoints ==
    [ c \in { "U+00E9", "U+0301", "U+2013", "U+2018", "U+2019", "U+201C", "U+201D", "U+2022" } |->
        CASE c = "U+00E9" -> 233
          [] c = "U+0301" -> 769
          [] c = "U+2013" -> 8211
          [] c = "U+2018" -> 8216
          [] c = "U+2019" -> 8217
          [] c = "U+201C" -> 8220
          [] c = "U+201D" -> 8221
          [] c = "U+2022" -> 8226 ]

\* the code point of a character
ord ==
    [ c \in Range(AsciiPrintable) \cup { "\t", "\n" } \cup DOMAIN NamedCodePoints |->
        IF c = "\t" THEN 9
        ELSE IF c = "\n" THEN 10
        ELSE IF c \in DOMAIN NamedCodePoints THEN NamedCodePoints[c]
        ELSE 31 + (CHOOSE i \in DOMAIN AsciiPrintable : AsciiPrintable[i] = c) ]

UnicodeEncodeError == [ raised |-> "UnicodeEncodeError" ]

\* mutation of latin1_encode_ignore: s.encode("latin-1")
latin1_encode_strict(s) ==
    IF \E i \in 1..Len(s) : ord[s[i]] > 255 THEN UnicodeEncodeError
    ELSE [ i \in 1..Len(s) |-> ord[s[i]] ] \o << >>

\* s.encode("latin-1", errors="ignore"): one byte per character up to U+00FF
RECURSIVE latin1_encode_from(_, _, _)
latin1_encode_from(s, i, acc) ==
    LET S == { k \in i..Len(s) : ord[s[k]] > 255 }
    IN  IF S = { } THEN acc \o [ k \in 1..(Len(s) - i + 1) |-> ord[s[i + k - 1]] ]
        ELSE LET q == Min(S)
             IN  latin1_encode_from(s, q + 1, acc \o [ k \in 1..(q - i) |-> ord[s[i + k - 1]] ])

latin1_encode_ignore(s) == latin1_encode_from(s, 1, << >>)

\* the while loop that closes the spans left on the stack
RECURSIVE rtf_close_all(_)
rtf_close_all(stack) ==
    IF stack = << >> THEN << >>
    ELSE close_controls(stack[Len(stack)]) \o rtf_close_all(SubSeq(stack, 1, Len(stack) - 1))

\* the finditer loop from pos on, the tail and the closing loop: the list out
RECURSIVE rtf_scan(_, _, _, _)
rtf_scan(txt, pos, stack, out) ==
    LET m == NextTag(txt, pos)
    IN  IF m = None
        THEN (IF pos < Len(txt)
              THEN Append(out, rtf_escape(SubSeq(txt, pos + 1, Len(txt))))
              ELSE out) \o rtf_close_all(stack)
        ELSE LET chunk == SubSeq(txt, pos + 1, m.start)
                 out1  == IF chunk # << >> THEN Append(out, rtf_escape(chunk)) ELSE out
             IN  IF is_closing_span(m.tag)
                 THEN IF stack # << >>
                      THEN rtf_scan(txt, m.end, SubSeq(stack, 1, Len(stack) - 1),
                                    out1 \o close_controls(stack[Len(stack)]))
                      ELSE rtf_scan(txt, m.end, stack, out1)
                 ELSE IF is_opening_span(m.tag)
                      THEN rtf_scan(txt, m.end, Append(stack, span_flags(m.attrs)),
                                    out1 \o open_controls(span_flags(m.attrs)))
                      ELSE rtf_scan(txt, m.end, stack, out1)

\* _html_fragment_to_rtf as one function of its argument
html_fragment_to_rtf(fragment) == Concat(rtf_scan(rtf_prepared(fragment), 0, << >>, << >>))

\* the function and the run of the serializer agree
RtfRunIsFunction == rtf_pc = "done" => rtf_result = html_fragment_to_rtf(rtf_fragment)

RtfHeader ==
    << Chars("{\\rtf1\\ansi\\ansicpg1252\\uc1\\deff0"),
       Chars("{\\fonttbl{\\f0 Calibri;}}"),
       Chars("{\\colortbl ;\\red110\\green173\\blue255;}"),
       Chars("\\viewkind4\\pard\\plain\\ltrpar\\sa0\\sl0\\f0\\fs22") >>

CtlPar == Chars("\\par ")

CtlBulletTab == Chars("\\bullet\\tab ")

\* mutation of CtlItemEnd: nothing is appended after the fragment
CtlItemEnd_absent == << >>

CtlItemEnd == Chars("\\cf0\\strike0 ")

\* parts = [the four header strings]
BulBegin ==
    /\ bul_pc = "call"
    /\ bul_parts' = RtfHeader
    /\ bul_k' = 0
    /\ bul_pc' = "loop"
    /\ UNCHANGED << bul_items, bul_result,
                    resolverVars, tokVars, hlVars, rtfVars, ncVars, frVars, wfVars, callVars, sgVars, cmpVars >>

\* one iteration of: for c in items_sorted
BulItem ==
    /\ bul_pc = "loop"
    /\ bul_k < Len(bul_items)
    /\ bul_parts' = bul_parts \o << CtlPar, CtlBulletTab,
                                    html_fragment_to_rtf(bul_items[bul_k + 1]), CtlItemEnd >>
    /\ bul_k' = bul_k + 1
    /\ UNCHANGED << bul_items, bul_result, bul_pc,
                    resolverVars, tokVars, hlVars, rtfVars, ncVars, frVars, wfVars, callVars, sgVars, cmpVars >>

\* parts.append("}"); return "".join(parts).encode("latin-1", errors="ignore")
BulReturn ==
    /\ bul_pc = "loop"
    /\ bul_k = Len(bul_items)
    /\ bul_parts' = Append(bul_parts, << "}" >>)
    /\ bul_result' = latin1_encode_ignore(Concat(Append(bul_parts, << "}" >>)))
    /\ bul_pc' = "done"
    /\ UNCHANGED << bul_items, bul_k,
                    resolverVars, tokVars, hlVars, rtfVars, ncVars, frVars, wfVars, callVars, sgVars, cmpVars >>

MaxItems == 2      \* most items passed to build_rtf_bullets_from_items

\* html of the items: a highlighted clause with its limit ("Fire – 100", the
\* en dash of clause_display_text), a rejected line with e-acute and braces
\* whose span is not closed, a kept line with a bullet and a typographic
\* apostrophe, a closing span alone, a backslash, the empty text
BulFragments ==
    { SpanOpenBlue \o Chars("Fire") \o SpanClose \o << " ", EnDash >> \o Chars(" 100"),
      SpanOpenStruck \o << "c", "a", "f", "U+00E9" >> \o Chars(" {x}"),
      << Bullet >> \o Chars(" war") \o << "U+2019" >> \o Chars("s"),
      Chars("LM7</span>"),
      Chars("a\\par b"),
      << >> }

BulItemLists == UNION { [ 1..n -> BulFragments ] : n \in 0..MaxItems }

\* a call of build_rtf_bullets_from_items on items with the html bul_items
InitBul ==
    /\ bul_items \in BulItemLists
    /\ bul_parts = << >>
    /\ bul_k = 0
    /\ bul_result = << >>
    /\ bul_pc = "call"
    /\ ResolverIdle /\ TokIdle /\ HlIdle /\ RtfIdle /\ NcIdle /\ FrIdle /\ WfIdle /\ CallIdle /\ SgIdle /\ CmpIdle

NextBul ==
    \/ BulBegin
    \/ BulItem
    \/ BulReturn

SpecBul == InitBul /\ [][NextBul]_vars

\* the characters a single byte can stand for, by byte value
ClaimInRange(c) == ord[c] <= 255

\* C22: build_rtf_bullets_from_items returns bytes and does not raise, whatever
\* the items' texts are: the bytes are the characters of the assembled document
\* that lie within the single-byte range, in order, one byte each; the
\* characters outside the range are left out.
C22_EncodeDropsOutOfRange ==
    bul_pc = "done" =>
        LET doc  == Concat(bul_parts)
            kept == SelectSeq(doc, ClaimInRange)
        IN  /\ bul_result # UnicodeEncodeError
            /\ Len(bul_result) = Len(kept)
            /\ \A i \in 1..Len(kept) : bul_result[i] = ord[kept[i]]

\* a returned document that held characters beyond the range and a non-ASCII
\* character within it
C22_Witness ==
    /\ bul_pc = "done"
    /\ \E i \in 1..Len(Concat(bul_parts)) : Concat(bul_parts)[i] = EnDash
    /\ \E i \in 1..Len(Concat(bul_parts)) : Concat(bul_parts)[i] = "U+00E9"
    /\ \E i \in 1..Len(bul_result) : bul_result[i] = 233
    /\ Len(bul_result) < Len(Concat(bul_parts))

----------------------------------------------------------------------------
(* The review cycle of a submission (SpecWf).                              *)

\* indices (0-based) of the lines with and without a match
ClaimMatchedIdx == { i \in 0..(Len(wf_matches) - 1) : wf_matches[i + 1] # None }

ClaimUnmatchedIdx == { i \in 0..(Len(wf_matches) - 1) : wf_matches[i + 1] = None }

\* C23: when the Comparison first opens for a submitted text, in app.main and
\* in clause_checker.run, the keep set holds the index of every LM7 line and
\* the keep button of every LM7 line is checked.
C23_Lm7LinesStartKept ==
    [][ ( wf_pc = "input" /\ wf_pc' = "comparison" )
        => \A i \in 0..(Len(wf_lines') - 1) :
              is_lm7_line(wf_lines'[i + 1])
                 => ( i \in wf_keep_set' /\ i \in dlg_keep_set' /\ i \in dlg_keep_checked' ) ]_vars

\* C24: the sets captured when the Comparison is left with Next are the sets
\* the Final Review is built from; the Final Review does not change them; Back
\* from the Final Review opens the Comparison with exactly those sets as its
\* sets and as its checked buttons.
C24_SetsSurviveRoundTrips ==
    [][ /\ ( wf_pc = "comparison" /\ wf_pc' = "review" )
           => ( /\ dlg_override_set' = dlg_override_checked
                /\ dlg_keep_set' = dlg_keep_checked
                /\ wf_override_set' = dlg_override_checked
                /\ wf_keep_set' = dlg_keep_checked )
        /\ ( wf_pc = "review" /\ wf_pc' = "review" )
           => UNCHANGED << dlg_override_set, dlg_keep_set, wf_override_set, wf_keep_set >>
        /\ ( wf_pc = "review" /\ wf_pc' = "comparison" )
           => ( /\ dlg_override_set' = dlg_override_set
                /\ dlg_keep_set' = dlg_keep_set
                /\ dlg_override_checked' = dlg_override_set
                /\ dlg_keep_checked' = dlg_keep_set
                /\ wf_override_set' = dlg_override_set
                /\ wf_keep_set' = dlg_keep_set
                /\ UNCHANGED << wf_lines, wf_matches >> ) ]_vars

\* a Comparison re-opened from the Final Review with an override and a keep
\* carried over, about to be left with Next again
C24_Witness ==
    /\ wf_pc = "comparison"
    /\ dlg_override_set # { }
    /\ dlg_keep_set # { }
    /\ dlg_override_checked = dlg_override_set
    /\ dlg_keep_checked = dlg_keep_set

\* C25: from the opening of the Comparison on, however it is left, the override
\* set holds only indices of matched lines and the keep set only indices of
\* unmatched lines, so they are disjoint and within the line list; the same
\* holds of the sets of the open dialog and of its checked buttons.
C25_SetsWellFormed ==
    wf_pc # "raised" =>
        /\ Len(wf_matches) = Len(wf_lines)
        /\ wf_override_set \subseteq ClaimMatchedIdx
        /\ wf_keep_set \subseteq ClaimUnmatchedIdx
        /\ dlg_override_set \subseteq ClaimMatchedIdx
        /\ dlg_keep_set \subseteq ClaimUnmatchedIdx
        /\ dlg_override_checked \subseteq ClaimMatchedIdx
        /\ dlg_keep_checked \subseteq ClaimUnmatchedIdx
        /\ wf_override_set \cap wf_keep_set = { }
        /\ wf_override_set \cup wf_keep_set \subseteq 0..(Len(wf_lines) - 1)

\* the Final Review open on an override and a keep captured with Next
C25_Witness ==
    /\ wf_pc = "review"
    /\ wf_override_set # { }
    /\ wf_keep_set # { }

\* the Comparison of clause_checker.run closed by its window with the keep
\* button of the LM7 line checked at opening
C25_WitnessClosed ==
    /\ wf_pc = "select"
    /\ wf_kind = "run"
    /\ wf_keep_set # { }
    /\ wf_override_set = { }

----------------------------------------------------------------------------
(* normalize_colors_keep_exact applied to its own output (SpecNc).         *)

\* normalize_colors_keep_exact as one function of its argument: the three
\* substitutions in the order of the run
normalize_colors_keep_exact(html) ==
    SubFontFrom(SubStylesFrom(SubStylesFrom(html, 1, "\"", << >>), 1, "'", << >>), 1, << >>)

\* the function and the run of the normaliser agree
NcRunIsFunction == nc_pc = "done" => nc_html = normalize_colors_keep_exact(nc_input)

\* C26: normalize_colors_keep_exact applied to what it returned returns it
\* unchanged: no suppression properties are appended a second time and the
\* colour values stay.
C26_NormalizeIdempotent ==
    nc_pc = "done" => normalize_colors_keep_exact(nc_html) = nc_html

----------------------------------------------------------------------------
(* singularize on a word and on the word with "s" appended.                *)

MaxTokLen == 4     \* longest word given to the singularize run

\* letters the words are made of: those of the endings singularize looks at,
\* and "f", "r" for "fire"
SgLetters == { "e", "f", "i", "o", "r", "s", "x" }

SgWords == UNION { [ 1..n -> SgLetters ] : n \in 1..MaxTokLen }

\* singularize(w)
SgSingle ==
    /\ sg_pc = "start"
    /\ sg_single' = singularize(sg_tok)
    /\ sg_pc' = "plural"
    /\ UNCHANGED << sg_tok, sg_plural,
                    resolverVars, tokVars, hlVars, rtfVars, ncVars, frVars, wfVars, callVars, bulVars, cmpVars >>

\* singularize(w + "s")
SgPlural ==
    /\ sg_pc = "plural"
    /\ sg_plural' = singularize(sg_tok \o << "s" >>)
    /\ sg_pc' = "done"
    /\ UNCHANGED << sg_tok, sg_single,
                    resolverVars, tokVars, hlVars, rtfVars, ncVars, frVars, wfVars, callVars, bulVars, cmpVars >>

InitSg ==
    /\ sg_tok \in SgWords
    /\ sg_single = << >>
    /\ sg_plural = << >>
    /\ sg_pc = "start"
    /\ ResolverIdle /\ TokIdle /\ HlIdle /\ RtfIdle /\ NcIdle /\ FrIdle /\ WfIdle /\ CallIdle /\ BulIdle /\ CmpIdle

NextSg ==
    \/ SgSingle
    \/ SgPlural

SpecSg == InitSg /\ [][NextSg]_vars

\* C27: for a lowercase word w of at least three characters that does not end
\* in "s", singularize(w + "s") = singularize(w).
C27_PluralReducesToSingular ==
    ( sg_pc = "done" /\ Len(sg_tok) >= 3 /\ sg_tok[Len(sg_tok)] # "s" )
        => sg_plural = sg_single

----------------------------------------------------------------------------
(* The rows of the Comparison: compute_matched_tokens per matched line.    *)

\* mutation of clause_token_pool: the keywords are left out
clause_token_pool_name_only(clause, stopwords) == token_set(clause.Name, stopwords)

\* clause_token_pool: name tokens and the tokens of each keyword
clause_token_pool(clause, stopwords) ==
    token_set(clause.Name, stopwords)
        \cup UNION { token_set(clause.Keywords[k], stopwords) : k \in 1..Len(clause.Keywords) }

\* a < b for Python strings: by code point, a proper prefix first
StrLess(a, b) ==
    \E k \in 1..(Len(a) + 1) :
        /\ \A j \in 1..(k - 1) : j <= Len(b) /\ a[j] = b[j]
        /\ k <= Len(b)
        /\ ( k = Len(a) + 1 \/ ord[a[k]] < ord[b[k]] )

\* sorted(S) for a set of strings
RECURSIVE sorted(_)
sorted(S) ==
    IF S = { } THEN << >>
    ELSE LET first == CHOOSE x \in S : \A y \in S \ { x } : StrLess(x, y)
         IN  << first >> \o sorted(S \ { first })

compute_matched_tokens(user_text, clause) ==
    sorted(token_set(user_text, COMMON_STOPWORDS) \cap clause_token_pool(clause, COMMON_STOPWORDS))

\* self._matched_rows = {}, before the loop over the rows
CmpBegin ==
    /\ cmp_pc = "call"
    /\ cmp_tokens' = << >>
    /\ cmp_idx' = 0
    /\ cmp_pc' = "loop"
    /\ UNCHANGED << cmp_library, cmp_user_lines, cmp_matches, resolverVars, tokVars, hlVars,
                    rtfVars, ncVars, frVars, wfVars, callVars, bulVars, sgVars >>

\* one iteration of: for idx, (uline, match) in enumerate(zip(user_lines, matches))
CmpRow ==
    /\ cmp_pc = "loop"
    /\ cmp_idx < Len(cmp_user_lines)
    /\ cmp_tokens' = Append(cmp_tokens,
                            IF cmp_matches[cmp_idx + 1] # None
                            THEN compute_matched_tokens(cmp_user_lines[cmp_idx + 1],
                                                        cmp_matches[cmp_idx + 1])
                            ELSE None)
    /\ cmp_idx' = cmp_idx + 1
    /\ UNCHANGED << cmp_library, cmp_user_lines, cmp_matches, cmp_pc, resolverVars, tokVars,
                    hlVars, rtfVars, ncVars, frVars, wfVars, callVars, bulVars, sgVars >>

\* the rows are built
CmpDone ==
    /\ cmp_pc = "loop"
    /\ cmp_idx = Len(cmp_user_lines)
    /\ cmp_pc' = "done"
    /\ UNCHANGED << cmp_library, cmp_user_lines, cmp_matches, cmp_tokens, cmp_idx, resolverVars,
                    tokVars, hlVars, rtfVars, ncVars, frVars, wfVars, callVars, bulVars, sgVars >>

MaxRows == 2       \* most lines shown in a Comparison

\* {Smoke Damage; "fire and smoke", "café fires", "war’s end 30"; no limit}
ClauseSmoke ==
    [ Name |-> Chars("Smoke Damage"),
      Keywords |-> << Chars("fire and smoke"),
                      << "c", "a", "f", "U+00E9" >> \o Chars(" fires"),
                      Chars("war") \o << "U+2019" >> \o Chars("s end 30") >>,
      Limit |-> << >> ]

CmpLibraries ==
    { ReviewLibrary, << ClauseSmoke, ClauseWarExclusion >>, << ClauseFire200, ClauseSmoke >> }

CmpLines ==
    { Chars("fire smoke"),
      Chars("War and hostilities excluded"),
      Chars("war exclusion hostilities"),
      Chars("smoke damage cafe end"),
      Chars("Unrelated remark"),
      Chars("LM-7 war") }

CmpLineLists == UNION { [ 1..n -> CmpLines ] : n \in 0..MaxRows }

\* ComparisonDialog(.., user_lines, matches, ..) on the matches of the lines
\* against a library, in either department
InitCmp ==
    /\ cmp_library \in CmpLibraries
    /\ cmp_user_lines \in CmpLineLists
    /\ \E dept \in Departments :
          cmp_matches = best_unique_matches(cmp_user_lines, cmp_library, dept)
    /\ cmp_tokens = << >>
    /\ cmp_idx = 0
    /\ cmp_pc = "call"
    /\ ResolverIdle /\ TokIdle /\ HlIdle /\ RtfIdle /\ NcIdle /\ FrIdle /\ WfIdle
    /\ CallIdle /\ BulIdle /\ SgIdle

NextCmp ==
    \/ CmpBegin
    \/ CmpRow
    \/ CmpDone

SpecCmp == InitCmp /\ [][NextCmp]_vars

\* C28: for every line reported as matched, the matched tokens are a non-empty
\* list in strictly ascending order; the pool of clause_token_pool is the pool
\* the scorer builds; and the score of the line is 10 for each matched token
\* plus 5 for each matched token that is a token of the clause name.
C28_MatchedTokensExplainScore ==
    cmp_pc = "done" =>
        \A n \in 1..Len(cmp_user_lines) :
            cmp_matches[n] # None =>
                \A toks \in { cmp_tokens[n] } :
                \A clause \in { cmp_matches[n] } :
                    /\ Len(toks) >= 1
                    /\ \A a, b \in 1..Len(toks) : a < b => StrLess(toks[a], toks[b])
                    /\ clause_token_pool(clause, COMMON_STOPWORDS)
                          = scorer_pool_of(clause, name_tokens_of(clause))
                    /\ match_clause_with_score(cmp_user_lines[n], cmp_library).m = clause
                    /\ match_clause_with_score(cmp_user_lines[n], cmp_library).score
                          = 10 * Len(toks)
                            + 5 * Cardinality({ a \in 1..Len(toks) :
                                                  toks[a] \in Tokens(clause.Name) })

\* a matched row with three or more tokens, one of them from a keyword of
\* several words, and a second matched row
C28_Witness ==
    /\ cmp_pc = "done"
    /\ \E n, k \in 1..Len(cmp_tokens) :
          /\ n # k
          /\ cmp_matches[n] = ClauseSmoke
          /\ Len(cmp_tokens[n]) >= 3
          /\ \E a \in 1..Len(cmp_tokens[n]) : cmp_tokens[n][a] = Chars("cafe")
          /\ cmp_matches[k] # None

----------------------------------------------------------------------------
(* The tokens token_set returns (SpecTok)                                  *)

\* C29: every token in the set returned by token_set has length at least 3,
\* is not purely numeric and is not a member of the stopword set.
C29_TokensLongWordsNotStopwords ==
    tok_pc # "start" =>
        \A t \in tok_once :
            /\ Len(t) >= 3
            /\ ~ IsDigitStr(t)
            /\ t \notin COMMON_STOPWORDS

\* the part of C29 that the order of the tests does give: no stopword is returned
C29_NoStopwordReturned ==
    tok_pc # "start" => tok_once \cap COMMON_STOPWORDS = { }

----------------------------------------------------------------------------
(* The paragraphs of the bullet document (SpecBul)                         *)

\* the character a byte stands for
ClaimChr(b) == CHOOSE c \in DOMAIN ord : ord[c] = b

ClaimDecode(bytes) == [ i \in 1..Len(bytes) |-> ClaimChr(bytes[i]) ] \o << >>

\* positions of the paragraph marks among the events, in order
ClaimParagraphStarts(ev) ==
    LET P == { i \in 1..Len(ev) : ev[i] = ClaimControl(Chars("par")) }
        nth[k \in 1..Cardinality(P)] ==
            CHOOSE i \in P : Cardinality({ j \in P : j < i }) = k - 1
    IN  [ k \in 1..Cardinality(P) |-> nth[k] ] \o << >>

\* after the first n events, the last of the two controls seen is the switch
ClaimActive(ev, n, on, off) ==
    LET S == { i \in 1..n : ev[i] \in { ClaimControl(on), ClaimControl(off) } }
    IN  S # { } /\ ev[CHOOSE i \in S : \A j \in S : j <= i] = ClaimControl(on)

\* the characters of a run of events
ClaimCharsOf(ev) ==
    Concat([ i \in 1..Len(SelectSeq(ev, LAMBDA e : e.kind = "char")) |->
               SelectSeq(ev, LAMBDA e : e.kind = "char")[i].v ] \o << >>)

\* the text of an item that a single byte can carry: what lies between the
\* tags of its html
ClaimItemText(html) == SelectSeq(ClaimTextFrom(rtf_prepared(html), 0), ClaimInRange)

\* C30: the returned document is the header, one bulleted paragraph per item in
\* the order of the items, and the closing brace; each paragraph is a
\* paragraph mark, a bullet and a tab, the text of its item, and ends with a
\* colour reset and a strike reset; at the start of every item's text neither
\* the highlight colour nor strikethrough is active.
C30_OneResetParagraphPerItem ==
    bul_pc = "done" =>
        \A doc \in { ClaimDecode(bul_result) } :
        \A h \in { Len(Concat(RtfHeader)) } :
            /\ Len(doc) > h
            /\ SubSeq(doc, 1, h) = Concat(RtfHeader)
            /\ doc[Len(doc)] = "}"
            /\ \A ev \in { ClaimEvents(SubSeq(doc, h + 1, Len(doc) - 1)) } :
               \A pars \in { ClaimParagraphStarts(ev) } :
                  /\ Len(pars) = Len(bul_items)
                  /\ Len(ev) > 0 => ( pars # << >> /\ pars[1] = 1 )
                  /\ \A k \in 1..Len(pars) :
                        \A par \in { SubSeq(ev, pars[k],
                                            IF k < Len(pars) THEN pars[k + 1] - 1 ELSE Len(ev)) } :
                            /\ Len(par) >= 5
                            /\ par[2] = ClaimControl(Chars("bullet"))
                            /\ par[3] = ClaimControl(Chars("tab"))
                            /\ par[Len(par) - 1] = ClaimControl(Chars("cf0"))
                            /\ par[Len(par)] = ClaimControl(Chars("strike0"))
                            /\ \A i \in 1..Len(par) : par[i].kind # "brace"
                            /\ ClaimCharsOf(SubSeq(par, 4, Len(par) - 2)) = ClaimItemText(bul_items[k])
                            /\ ~ ClaimActive(ev, pars[k] + 2, Chars("cf1"), Chars("cf0"))
                            /\ ~ ClaimActive(ev, pars[k] + 2, Chars("strike"), Chars("strike0"))

\* a document of two items: the first opens a blue, struck span it never
\* closes, so both are switched on in its paragraph; the second has text
C30_Witness ==
    /\ bul_pc = "done"
    /\ Len(bul_items) = 2
    /\ bul_items[1] = SpanOpenStruck \o << "c", "a", "f", "U+00E9" >> \o Chars(" {x}")
    /\ ClaimItemText(bul_items[2]) # << >>
    /\ \A ev \in { ClaimEvents(SubSeq(ClaimDecode(bul_result), Len(Concat(RtfHeader)) + 1,
                                       Len(bul_result) - 1)) } :
          \E i, j, k \in 1..Len(ev) :
              /\ ev[i] = ClaimControl(Chars("cf1"))
              /\ ev[j] = ClaimControl(Chars("strike"))
              /\ ev[k] = ClaimControl(Chars("par"))
              /\ i < j /\ j < k
====
